---- MODULE Spec2Model ----
(***************************************************************************)
(* A model of the block editor of New Tab Note: the Block class            *)
(* (BlockTypes / Block), the BlockEditor handlers (js/editor.js) and the   *)
(* part of StorageManager (js/storage.js) the editor saves to and loads    *)
(* from.                                                                   *)
(*                                                                         *)
(* Contents are sequences of tokens; a token is one character or one       *)
(* markup element.  innerHTML keeps every token, textContent drops the     *)
(* markup tokens.  The DOM of a block always shows the block's content     *)
(* (every handler either reads the content from the DOM or re-renders),    *)
(* so a block's content stands for both.                                   *)
(***************************************************************************)
EXTENDS Integers, Sequences, FiniteSets, TLC

(* ------------------------------ bounds --------------------------------- *)
MaxBlocks == 2      \* handlers that add a block are disabled at this length
MaxLen == 1         \* longest content, in tokens
MaxIds == 3         \* size of the pool block ids are drawn from
MaxLoads == 2       \* calls of loadNote
MaxSaves == 1       \* save() executions in progress at the same time
MaxTitleReqs == 1   \* title requests of the notes list in flight
MaxGrid == 3        \* largest table side reached by addRow / addColumn
T0 == 1             \* the instant Date.now() returns while a document is edited
NumLen == 4         \* longest stored note of numbered and text blocks

(* ------------------------- program constants --------------------------- *)
SaveDelay == 500    \* setTimeout(() => this.save(), 500)
DefaultRows == 2    \* this.rows = options.rows || 2
DefaultCols == 2    \* this.cols = options.cols || 2

(* time is advanced in steps of half the debounce delay *)
Quantum == SaveDelay \div 2

MinTitleChars == 10   \* currentContent.trim().length < 10

(* ------------------------------ values --------------------------------- *)
Null == "\\null"
NoNote == "\\none"
NoteIds == {"n1", "n2"}
NewNoteIds == {"n3"}    \* the ids Utils.generateId gives to the notes created
IdPool == 1..MaxIds
DefaultCalloutIcon == "bulb"

BlockTypeNames ==
  {"text", "h1", "h2", "h3", "bullet", "numbered", "todo", "toggle", "quote",
   "code", "divider", "callout", "image", "table", "bookmark", "video",
   "file", "equation"}

(* the types whose element has no .block-content child (Block.createElement) *)
NoContentElement ==
  {"divider", "image", "table", "bookmark", "video", "file", "equation"}

MarkupTokens == {"<br>"}

(* the character U+0060 *)
Backtick == "backtick"

(* a run of characters that arrives in one input event (a paste) *)
LongText == "hello world"
LongTextChars == 11

Min(a, b) == IF a < b THEN a ELSE b
Max(a, b) == IF a > b THEN a ELSE b

RECURSIVE SeqsUpTo(_, _)
SeqsUpTo(S, n) ==
  IF n = 0 THEN {<<>>}
  ELSE LET shorter == SeqsUpTo(S, n - 1)
       IN shorter \cup {Append(s, c) : s \in {t \in shorter : Len(t) = n - 1}, c \in S}

RemoveAt(s, i) == SubSeq(s, 1, i - 1) \o SubSeq(s, i + 1, Len(s))
InsertAt(s, i, e) == SubSeq(s, 1, i - 1) \o <<e>> \o SubSeq(s, i, Len(s))

(* element.textContent of an element whose innerHTML is html *)
textContent(html) == SelectSeq(html, LAMBDA c : c \notin MarkupTokens)

RECURSIVE LeadingSpaces(_)
LeadingSpaces(s) ==
  IF s # <<>> /\ Head(s) = " " THEN 1 + LeadingSpaces(Tail(s)) ELSE 0

RECURSIVE Reverse(_)
Reverse(s) == IF s = <<>> THEN <<>> ELSE Append(Reverse(Tail(s)), Head(s))

(* String.prototype.trim *)
trim(s) ==
  LET a == LeadingSpaces(s)
      rest == SubSeq(s, a + 1, Len(s))
      b == LeadingSpaces(Reverse(rest))
  IN SubSeq(rest, 1, Len(rest) - b)

(* ------------------------------ Block ---------------------------------- *)
(* options.f || d for a string field f that may be absent *)
OrStr(o, f, d) == IF f \in DOMAIN o /\ o[f] # "" /\ o[f] # Null THEN o[f] ELSE d
(* options.f || d for a content field (a token sequence; "" is falsy) *)
OrSeq(o, f, d) == IF f \in DOMAIN o /\ o[f] # <<>> THEN o[f] ELSE d
(* options.f || d for a number field *)
OrNum(o, f, d) == IF f \in DOMAIN o /\ o[f] # 0 THEN o[f] ELSE d
(* options.f || false *)
OrBool(o, f) == IF f \in DOMAIN o THEN o[f] ELSE FALSE

(* An optional table grid: <<>> is null, <<g>> is the grid g. *)
NoGrid == <<>>

(* new Block(options) at time now; newId is what Utils.generateId() returns *)
Block(o, newId, now) ==
  [id |-> OrNum(o, "id", newId),
   type |-> OrStr(o, "type", "text"),
   content |-> OrSeq(o, "content", <<>>),
   checked |-> OrBool(o, "checked"),
   imageUrl |-> OrStr(o, "imageUrl", Null),
   calloutIcon |-> OrStr(o, "calloutIcon", DefaultCalloutIcon),
   collapsed |-> IF "collapsed" \in DOMAIN o THEN o.collapsed ELSE TRUE,
   children |-> OrSeq(o, "children", <<>>),
   rows |-> OrNum(o, "rows", DefaultRows),
   cols |-> OrNum(o, "cols", DefaultCols),
   tableData |-> OrSeq(o, "tableData", NoGrid),
   url |-> OrStr(o, "url", ""),
   title |-> OrStr(o, "title", ""),
   description |-> OrStr(o, "description", ""),
   favicon |-> OrStr(o, "favicon", ""),
   videoUrl |-> OrStr(o, "videoUrl", ""),
   fileName |-> OrStr(o, "fileName", ""),
   fileSize |-> OrNum(o, "fileSize", 0),
   fileData |-> OrStr(o, "fileData", Null),
   equation |-> OrStr(o, "equation", ""),
   createdAt |-> OrNum(o, "createdAt", now),
   updatedAt |-> OrNum(o, "updatedAt", now)]

(* the header cell `Header ${j}` *)
HeaderCell(j) ==
  IF j = 1 THEN "Header 1" ELSE IF j = 2 THEN "Header 2"
  ELSE IF j = 3 THEN "Header 3" ELSE IF j = 4 THEN "Header 4"
  ELSE IF j = 5 THEN "Header 5" ELSE IF j = 6 THEN "Header 6" ELSE "Header N"

(* a grid of the default size, whatever the block's rows and cols *)
BlankGridDefaultSize(rows, cols) ==
  [i \in 1..DefaultRows |-> [j \in 1..DefaultCols |-> IF i = 1 THEN HeaderCell(j) ELSE ""]]

(* the grid createTableElement builds when tableData is null *)
BlankGrid(rows, cols) ==
  [i \in 1..rows |-> [j \in 1..cols |-> IF i = 1 THEN HeaderCell(j) ELSE ""]]

(* Block.createElement, as far as it changes the block: rendering a table  *)
(* initialises a missing tableData.                                        *)
createElement(b) ==
  IF b.type = "table" /\ b.tableData = NoGrid
  THEN [b EXCEPT !.tableData = <<BlankGrid(b.rows, b.cols)>>]
  ELSE b

(* Block.serialize *)
serialize(b) ==
  [id |-> b.id, type |-> b.type, content |-> b.content, checked |-> b.checked,
   imageUrl |-> b.imageUrl, calloutIcon |-> b.calloutIcon,
   createdAt |-> b.createdAt, updatedAt |-> b.updatedAt]
  @@ (IF b.type = "toggle"
      THEN [collapsed |-> b.collapsed, children |-> b.children] ELSE <<>>)
  @@ (IF b.type = "table"
      THEN [rows |-> b.rows, cols |-> b.cols, tableData |-> b.tableData] ELSE <<>>)
  @@ (IF b.type = "bookmark"
      THEN [url |-> b.url, title |-> b.title, description |-> b.description,
            favicon |-> b.favicon] ELSE <<>>)
  @@ (IF b.type = "video" THEN [videoUrl |-> b.videoUrl] ELSE <<>>)
  @@ (IF b.type = "file"
      THEN [fileName |-> b.fileName, fileSize |-> b.fileSize,
            fileData |-> b.fileData] ELSE <<>>)
  @@ (IF b.type = "equation" THEN [equation |-> b.equation] ELSE <<>>)

(* Block.deserialize *)
deserialize(data, newId, now) == Block(data, newId, now)

(* ------------------------------ state ---------------------------------- *)
VARIABLES
  noteId,      \* BlockEditor.noteId
  noteData,    \* BlockEditor.noteData: <<>> is null, <<n>> the note record n
  blocks,      \* BlockEditor.blocks
  numbers,     \* the data-number of the element of each block, in the order
               \* of the elements in #blocks-container (that of the blocks)
  timers,      \* pending setTimeout callbacks of scheduleSave: [left, cur];
               \* cur marks the one BlockEditor.saveTimeout refers to
  saveStatus,  \* text of #save-status
  saves,       \* executions of save() suspended at an await
  load,        \* the execution of loadNote, suspended at an await
  canvases,    \* object store 'canvases' (the notes)
  elements,    \* object store 'elements': the block records, one per id
  elapsed,     \* time since the latest scheduleSave (stops at SaveDelay)
  shownNote,   \* history: the note the blocks in memory were loaded for
  outgoing,    \* history: the note that was shown, and its blocks, when
               \* loadNote was last called for another note
  dirty,       \* history: a handler changed the blocks since the latest
               \* save() began
  loads,       \* number of calls of loadNote
  openTabs,    \* App.openTabs: the noteId of each tab (its name is left out)
  activeTabIndex,  \* App.activeTabIndex, from 0
  appOp,       \* the execution of archiveNote / trashNoteById, suspended at
               \* an await
  hasReceivedFirstContent,  \* BlockEditor.hasReceivedFirstContent
  pendingAutoTitle,         \* BlockEditor.pendingAutoTitle
  titleReqs    \* executions of checkFirstContentAutoTitle and of
               \* generateTitleForNote suspended at an await

appVars == <<openTabs, activeTabIndex, appOp>>

titleVars == <<hasReceivedFirstContent, pendingAutoTitle, titleReqs>>

vars == <<noteId, noteData, blocks, numbers, timers, saveStatus, saves, load, canvases,
          elements, elapsed, shownNote, outgoing, dirty, loads, appVars, titleVars>>

ids(bs) == {bs[i].id : i \in DOMAIN bs}

(* Array.prototype.findIndex on ids, 1-based; 0 stands for -1 *)
findIndex(bs, id) ==
  IF \E i \in DOMAIN bs : bs[i].id = id
  THEN CHOOSE i \in DOMAIN bs : bs[i].id = id /\ \A j \in 1..(i - 1) : bs[j].id # id
  ELSE 0

(* The part of the state a synchronous handler of the editor works on. *)
(* focus is what the handler does to the focus: NoFocus until the handler   *)
(* focuses a block's content (no handler reads it).                        *)
NoCaret == 0 - 1
NoFocus == [id |-> 0, caret |-> NoCaret]

Cur ==
  [blocks |-> blocks, numbers |-> numbers, elements |-> elements, timers |-> timers,
   status |-> saveStatus, elapsed |-> elapsed, focus |-> NoFocus]

hasContentElement(b) == b.type \notin NoContentElement

(* BlockEditor.focusBlock: content.focus() leaves the caret at the start   *)
(* of the newly created element, placeCaretAtEnd after its last character; *)
(* a block without .block-content is not focused                           *)
focusBlock(s, blockId, atEnd) ==
  LET i == findIndex(s.blocks, blockId)
  IN IF i = 0 \/ ~hasContentElement(s.blocks[i]) THEN s
     ELSE [s EXCEPT !.focus =
             [id |-> blockId,
              caret |-> IF atEnd THEN Len(textContent(s.blocks[i].content)) ELSE 0]]

(* BlockEditor.placeCaretAtPosition on the content of the block blockId:   *)
(* the caret goes after position characters of the text, or to the end    *)
placeCaretAtPosition(s, blockId, position) ==
  LET i == findIndex(s.blocks, blockId)
  IN IF i = 0 \/ ~hasContentElement(s.blocks[i]) THEN s
     ELSE [s EXCEPT !.focus =
             [id |-> blockId,
              caret |-> Min(position, Len(textContent(s.blocks[i].content)))]]

UsedIds(s) ==
  ids(s.blocks) \cup {r.id : r \in s.elements}
  \cup (IF load.pc = "elements" THEN {r.id : r \in load.data} ELSE {})

(* generateId that returns the same id at every call *)
generateIdFirst(s) == 1

(* Utils.generateId: an id no block has (timestamp plus random suffix) *)
generateId(s) ==
  IF IdPool \ UsedIds(s) = {} THEN 0
  ELSE CHOOSE n \in IdPool \ UsedIds(s) : \A m \in IdPool \ UsedIds(s) : n <= m

CanCreate(s) == IdPool \ UsedIds(s) # {} /\ Len(s.blocks) < MaxBlocks

(* scheduleSave without clearTimeout: the earlier timer is forgotten, not   *)
(* cancelled                                                               *)
scheduleSaveNoCancel(s) ==
  [s EXCEPT !.status = "Saving...",
            !.timers = Append([k \in DOMAIN @ |-> [@[k] EXCEPT !.cur = FALSE]],
                              [left |-> SaveDelay, cur |-> TRUE]),
            !.elapsed = 0]

(* BlockEditor.scheduleSave *)
scheduleSave(s) ==
  [s EXCEPT !.status = "Saving...",
            !.timers = Append(SelectSeq(@, LAMBDA t : ~t.cur),
                              [left |-> SaveDelay, cur |-> TRUE]),
            !.elapsed = 0]

(* an element without data-number *)
NoNumber == 0

(* the data-number Block.createElement gives the element it creates *)
elementNumber(b) == IF b.type = "numbered" THEN 1 ELSE NoNumber

(* the loop of getNumberedListNumber, from position i down *)
RECURSIVE numberedRun(_, _)
numberedRun(bs, i) ==
  IF i < 1 THEN 0
  ELSE IF bs[i].type = "numbered" THEN 1 + numberedRun(bs, i - 1)
  ELSE 0

(* getNumberedListNumber that counts every numbered block before index *)
getNumberedListNumberNoBreak(bs, index) ==
  1 + Cardinality({j \in 1..(index - 1) : bs[j].type = "numbered"})

(* BlockEditor.getNumberedListNumber, index from 1 *)
getNumberedListNumber(bs, index) == 1 + numberedRun(bs, index - 1)

(* updateNumberedLists that leaves every element as it is *)
updateNumberedListsNone(s) == s

(* BlockEditor.updateNumberedLists: the elements with data-type numbered   *)
(* are those createElement gave a data-number                              *)
updateNumberedLists(s) ==
  [s EXCEPT !.numbers = [i \in DOMAIN @ |->
                          IF @[i] # NoNumber THEN getNumberedListNumber(s.blocks, i)
                          ELSE @[i]]]

(* BlockEditor.renderBlocks: every block's element is created anew; the    *)
(* element that had the focus is gone                                      *)
renderBlocks(s) ==
  [s EXCEPT !.blocks = [i \in DOMAIN s.blocks |-> createElement(s.blocks[i])],
            !.numbers = [i \in DOMAIN s.blocks |->
                          IF s.blocks[i].type = "numbered"
                          THEN getNumberedListNumber(s.blocks, i)
                          ELSE elementNumber(s.blocks[i])],
            !.focus = NoFocus]

(* BlockEditor.createBlock *)
createBlock(s, type, content) ==
  Block([type |-> type, content |-> content], generateId(s), T0)

(* insertBlockAfter that splices at index, before the block afterId *)
insertBlockBefore(s, afterId, type, content) ==
  LET index == findIndex(s.blocks, afterId)
      block == createBlock(s, type, content)
      s1 == [s EXCEPT !.blocks = IF index = 0 THEN Append(@, block)
                                 ELSE InsertAt(@, index, block)]
  IN scheduleSave(focusBlock(renderBlocks(s1), block.id, FALSE))

(* BlockEditor.insertBlockAfter *)
insertBlockAfter(s, afterId, type, content) ==
  LET index == findIndex(s.blocks, afterId)
      block == createBlock(s, type, content)
      s1 == [s EXCEPT !.blocks = IF index = 0 THEN Append(@, block)
                                 ELSE InsertAt(@, index + 1, block)]
  IN scheduleSave(focusBlock(renderBlocks(s1), block.id, FALSE))

(* BlockEditor.addBlockAtEnd *)
addBlockAtEnd(s) ==
  LET block == createElement(createBlock(s, "text", <<>>))
  IN scheduleSave(focusBlock([s EXCEPT !.blocks = Append(@, block),
                                       !.numbers = Append(@, elementNumber(block))],
                             block.id, FALSE))

(* StorageManager.deleteElement: the delete is queued when it is called *)
deleteElement(s, id) ==
  [s EXCEPT !.elements = {r \in @ : r.id # id}]

(* deleteBlock without the branch that keeps the last block *)
deleteBlockNoGuard(s, blockId) ==
  LET index == findIndex(s.blocks, blockId)
  IN IF index = 0 THEN s
     ELSE LET s1 == renderBlocks(
                      deleteElement([s EXCEPT !.blocks = RemoveAt(@, index)], blockId))
              focusIndex == Max(1, index - 1)
          IN IF s1.blocks = <<>> THEN scheduleSave(s1)
             ELSE scheduleSave(focusBlock(s1, s1.blocks[focusIndex].id, TRUE))

(* deleteBlock without Storage.deleteElement *)
deleteBlockKeepRecord(s, blockId) ==
  LET index == findIndex(s.blocks, blockId)
  IN IF index = 0 THEN s
     ELSE IF Len(s.blocks) = 1
     THEN focusBlock(renderBlocks([s EXCEPT !.blocks[1].content = <<>>,
                                            !.blocks[1].type = "text"]),
                     s.blocks[1].id, FALSE)
     ELSE LET s1 == renderBlocks([s EXCEPT !.blocks = RemoveAt(@, index)])
              focusIndex == Max(1, index - 1)
          IN scheduleSave(focusBlock(s1, s1.blocks[focusIndex].id, TRUE))

(* BlockEditor.deleteBlock *)
deleteBlock(s, blockId) ==
  LET index == findIndex(s.blocks, blockId)
  IN IF index = 0 THEN s
     ELSE IF Len(s.blocks) = 1
     THEN focusBlock(renderBlocks([s EXCEPT !.blocks[1].content = <<>>,
                                            !.blocks[1].type = "text"]),
                     s.blocks[1].id, FALSE)
     ELSE LET s1 == renderBlocks(
                      deleteElement([s EXCEPT !.blocks = RemoveAt(@, index)], blockId))
              focusIndex == Max(1, index - 1)
          IN scheduleSave(focusBlock(s1, s1.blocks[focusIndex].id, TRUE))

(* changeBlockType that puts a new block of the type in the block's place *)
changeBlockTypeFresh(s, blockId, newType) ==
  LET index == findIndex(s.blocks, blockId)
  IN IF index = 0 THEN s
     ELSE scheduleSave(updateNumberedLists(focusBlock(
            [s EXCEPT !.blocks[index] = createElement(createBlock(s, newType, <<>>)),
                      !.numbers[index] = IF newType = "numbered"
                                         THEN getNumberedListNumber(s.blocks, index)
                                         ELSE NoNumber],
            blockId, FALSE)))

(* BlockEditor.changeBlockType *)
changeBlockType(s, blockId, newType) ==
  LET index == findIndex(s.blocks, blockId)
  IN IF index = 0 THEN s
     ELSE scheduleSave(updateNumberedLists(focusBlock(
            [s EXCEPT !.blocks[index] = createElement([@ EXCEPT !.type = newType]),
                      !.numbers[index] = IF newType = "numbered"
                                         THEN getNumberedListNumber(s.blocks, index)
                                         ELSE NoNumber],
            blockId, FALSE)))

(* ------------------------- editor handlers ----------------------------- *)
StartsWith(text, prefix) ==
  Len(text) >= Len(prefix) /\ SubSeq(text, 1, Len(prefix)) = prefix

(* a shortcuts object whose first key is "#": it shadows "## " and "### " *)
ShortcutsShadowing ==
  << [prefix |-> <<"#">>, type |-> "h1"],
     [prefix |-> <<"#", "#", " ">>, type |-> "h2"],
     [prefix |-> <<"#", "#", "#", " ">>, type |-> "h3"],
     [prefix |-> <<"-", " ">>, type |-> "bullet"],
     [prefix |-> <<"*", " ">>, type |-> "bullet"],
     [prefix |-> <<"1", ".", " ">>, type |-> "numbered"],
     [prefix |-> <<"[", "]", " ">>, type |-> "todo"],
     [prefix |-> <<"[", " ", "]", " ">>, type |-> "todo"],
     [prefix |-> <<">", " ">>, type |-> "quote"],
     [prefix |-> <<Backtick, Backtick, Backtick, " ">>, type |-> "code"],
     [prefix |-> <<"-", "-", "-">>, type |-> "divider"] >>

(* the shortcuts object of checkMarkdownShortcuts, in the order of its keys *)
Shortcuts ==
  << [prefix |-> <<"#", " ">>, type |-> "h1"],
     [prefix |-> <<"#", "#", " ">>, type |-> "h2"],
     [prefix |-> <<"#", "#", "#", " ">>, type |-> "h3"],
     [prefix |-> <<"-", " ">>, type |-> "bullet"],
     [prefix |-> <<"*", " ">>, type |-> "bullet"],
     [prefix |-> <<"1", ".", " ">>, type |-> "numbered"],
     [prefix |-> <<"[", "]", " ">>, type |-> "todo"],
     [prefix |-> <<"[", " ", "]", " ">>, type |-> "todo"],
     [prefix |-> <<">", " ">>, type |-> "quote"],
     [prefix |-> <<Backtick, Backtick, Backtick, " ">>, type |-> "code"],
     [prefix |-> <<"-", "-", "-">>, type |-> "divider"] >>

(* checkMarkdownShortcuts without its first line: any type is converted *)
checkMarkdownShortcutsAnyType(s, i) ==
  LET block == s.blocks[i]
      text == textContent(block.content)
      hits == {k \in DOMAIN Shortcuts : StartsWith(text, Shortcuts[k].prefix)}
  IN IF hits = {} THEN s
     ELSE LET k == CHOOSE k \in hits : \A m \in hits : k <= m
              newContent == SubSeq(text, Len(Shortcuts[k].prefix) + 1, Len(text))
          IN changeBlockType([s EXCEPT !.blocks[i].content = newContent],
                             block.id, Shortcuts[k].type)

(* BlockEditor.checkMarkdownShortcuts on the block at position i *)
checkMarkdownShortcuts(s, i) ==
  LET block == s.blocks[i]
      text == textContent(block.content)
      hits == {k \in DOMAIN Shortcuts : StartsWith(text, Shortcuts[k].prefix)}
  IN IF block.type # "text" \/ hits = {} THEN s
     ELSE LET k == CHOOSE k \in hits : \A m \in hits : k <= m
              newContent == SubSeq(text, Len(Shortcuts[k].prefix) + 1, Len(text))
          IN changeBlockType([s EXCEPT !.blocks[i].content = newContent],
                             block.id, Shortcuts[k].type)

(* BlockEditor.onBlockInput, the event's target being the block's           *)
(* .block-content, whose innerHTML is now c                                *)
onBlockInput(s, i, c) ==
  LET s1 == [s EXCEPT !.blocks[i].content = c, !.blocks[i].updatedAt = T0]
  IN scheduleSave(checkMarkdownShortcuts(s1, i))

(* Enter that leaves the content behind the caret in the block *)
onEnterNoTruncate(s, i, p) ==
  LET block == s.blocks[i]
      afterText == SubSeq(block.content, p + 1, Len(block.content))
  IN scheduleSave(insertBlockAfter(s, block.id, "text", afterText))

(* BlockEditor.onBlockKeyDown, key Enter, the selection ending after p      *)
(* tokens of the content of the block at position i                        *)
onEnter(s, i, p) ==
  LET block == s.blocks[i]
      afterText == SubSeq(block.content, p + 1, Len(block.content))
      before == SubSeq(block.content, 1, p)
      newType == IF block.type \in {"bullet", "numbered", "todo"}
                    /\ trim(textContent(before)) # <<>>
                 THEN block.type ELSE "text"
      s1 == [s EXCEPT !.blocks[i].content = before]
  IN scheduleSave(insertBlockAfter(s1, block.id, newType, afterText))

(* Backspace that merges into whatever block comes before *)
onBackspaceAcross(s, i) ==
  LET block == s.blocks[i]
  IN IF block.type # "text" THEN changeBlockType(s, block.id, "text")
     ELSE IF i > 1
     THEN deleteBlock(
            [s EXCEPT !.blocks[i - 1].content = s.blocks[i - 1].content \o block.content],
            block.id)
     ELSE s

(* Backspace without the return after changeBlockType: the converted block *)
(* is merged in the same keystroke                                         *)
onBackspaceNoReturn(s, i) ==
  LET s0 == IF s.blocks[i].type # "text"
            THEN changeBlockType(s, s.blocks[i].id, "text") ELSE s
      block == s0.blocks[i]
  IN IF i > 1
     THEN LET prevBlock == s0.blocks[i - 1]
          IN IF hasContentElement(prevBlock)
                /\ prevBlock.type # "divider" /\ prevBlock.type # "image"
             THEN LET prevLength == Len(textContent(prevBlock.content))
                      s1 == [s0 EXCEPT !.blocks[i - 1].content =
                                         prevBlock.content \o block.content]
                  IN placeCaretAtPosition(deleteBlock(s1, block.id),
                                          prevBlock.id, prevLength)
             ELSE s0
     ELSE s0

(* Backspace that measures the previous content in markup, not in text *)
onBackspaceHtmlCaret(s, i) ==
  LET block == s.blocks[i]
  IN IF block.type # "text" THEN changeBlockType(s, block.id, "text")
     ELSE IF i > 1
     THEN LET prevBlock == s.blocks[i - 1]
          IN IF hasContentElement(prevBlock)
                /\ prevBlock.type # "divider" /\ prevBlock.type # "image"
             THEN LET prevLength == Len(prevBlock.content)
                      s1 == [s EXCEPT !.blocks[i - 1].content =
                                        prevBlock.content \o block.content]
                  IN placeCaretAtPosition(deleteBlock(s1, block.id),
                                          prevBlock.id, prevLength)
             ELSE s
     ELSE s

(* BlockEditor.onBlockKeyDown, key Backspace, collapsed caret at the start  *)
(* of the block at position i.  The caret is placed by the callback of     *)
(* setTimeout(..., 0), which runs when the handler has returned.           *)
onBackspace(s, i) ==
  LET block == s.blocks[i]
  IN IF block.type # "text" THEN changeBlockType(s, block.id, "text")
     ELSE IF i > 1
     THEN LET prevBlock == s.blocks[i - 1]
          IN IF hasContentElement(prevBlock)
                /\ prevBlock.type # "divider" /\ prevBlock.type # "image"
             THEN LET prevLength == Len(textContent(prevBlock.content))
                      s1 == [s EXCEPT !.blocks[i - 1].content =
                                        prevBlock.content \o block.content]
                  IN placeCaretAtPosition(deleteBlock(s1, block.id),
                                          prevBlock.id, prevLength)
             ELSE s
     ELSE s

(* Delete that takes the next block's content and leaves that block *)
onDeleteNoRemove(s, i) ==
  IF i < Len(s.blocks)
  THEN LET block == s.blocks[i]
           nextBlock == s.blocks[i + 1]
       IN IF hasContentElement(nextBlock)
             /\ nextBlock.type # "divider" /\ nextBlock.type # "image"
          THEN scheduleSave([s EXCEPT !.blocks[i].content =
                                        block.content \o nextBlock.content])
          ELSE s
  ELSE s

(* BlockEditor.onBlockKeyDown, key Delete, collapsed caret at the end of    *)
(* the block at position i.  The closing placeCaretAtEnd(content) is given *)
(* the element deleteBlock's renderBlocks has replaced: addRange ignores a *)
(* range outside the document, and removeAllRanges has emptied the         *)
(* selection.                                                              *)
onDelete(s, i) ==
  IF i < Len(s.blocks)
  THEN LET block == s.blocks[i]
           nextBlock == s.blocks[i + 1]
       IN IF hasContentElement(nextBlock)
             /\ nextBlock.type # "divider" /\ nextBlock.type # "image"
          THEN LET s1 == deleteBlock(
                           [s EXCEPT !.blocks[i].content =
                                       block.content \o nextBlock.content],
                           nextBlock.id)
               IN [s1 EXCEPT !.focus.caret = NoCaret]
          ELSE s
  ELSE s

(* onDrop without the test that the target is the dragged block itself *)
onDropOntoItself(s, draggedId, targetId) ==
  LET draggedIndex == findIndex(s.blocks, draggedId)
      targetIndex == findIndex(s.blocks, targetId)
  IN IF draggedIndex = 0 \/ targetIndex = 0 THEN s
     ELSE LET draggedBlock == s.blocks[draggedIndex]
              rest == RemoveAt(s.blocks, draggedIndex)
              at == Min(targetIndex, Len(rest) + 1)
          IN scheduleSave(renderBlocks([s EXCEPT !.blocks = InsertAt(rest, at, draggedBlock)]))

(* BlockEditor.onDrop: draggedId is BlockEditor.draggedBlock, targetId the  *)
(* id of the block element the drop landed on                              *)
onDrop(s, draggedId, targetId) ==
  LET draggedIndex == findIndex(s.blocks, draggedId)
      targetIndex == findIndex(s.blocks, targetId)
  IN IF targetId = draggedId \/ draggedIndex = 0 \/ targetIndex = 0 THEN s
     ELSE LET draggedBlock == s.blocks[draggedIndex]
              rest == RemoveAt(s.blocks, draggedIndex)
              at == Min(targetIndex, Len(rest) + 1)
          IN scheduleSave(renderBlocks([s EXCEPT !.blocks = InsertAt(rest, at, draggedBlock)]))

(* BlockEditor.onBlockClick on .todo-checkbox / .toggle-arrow *)
onTodoClick(s, i) ==
  scheduleSave([s EXCEPT !.blocks[i].checked = ~@])

onToggleClick(s, i) ==
  scheduleSave([s EXCEPT !.blocks[i].collapsed = ~@])

(* the blur listener createEquationElement puts on .equation-input *)
onEquationBlur(s, i, value) ==
  [s EXCEPT !.blocks[i].equation = value]

(* BlockEditor.rerenderBlock *)
rerenderBlock(s, i) ==
  [s EXCEPT !.blocks[i] = createElement(@),
            !.numbers[i] = elementNumber(s.blocks[i])]

Grid(b) == b.tableData[1]

(* BlockEditor.onBlockInput, the event's target being the cell at row,    *)
(* col of the table (from 1), whose textContent is now text                *)
onCellInput(s, i, row, col, text) ==
  LET b == s.blocks[i]
      s1 == IF b.type = "table" /\ b.tableData # NoGrid /\ row \in DOMAIN Grid(b)
            THEN [s EXCEPT !.blocks[i].tableData[1][row][col] = text,
                           !.blocks[i].updatedAt = T0]
            ELSE s
  IN scheduleSave(checkMarkdownShortcuts(s1, i))

(* addTableRow whose new row has the default number of cells *)
addTableRowDefaultWidth(s, i) ==
  LET b == s.blocks[i]
  IN IF b.tableData = NoGrid THEN s
     ELSE scheduleSave(rerenderBlock(
            [s EXCEPT !.blocks[i].tableData =
                        <<Append(Grid(b), [j \in 1..DefaultCols |-> ""])>>,
                      !.blocks[i].rows = @ + 1], i))

(* BlockEditor.addTableRow / addTableColumn / removeTableRow / removeTableColumn *)
addTableRow(s, i) ==
  LET b == s.blocks[i]
  IN IF b.tableData = NoGrid THEN s
     ELSE scheduleSave(rerenderBlock(
            [s EXCEPT !.blocks[i].tableData = <<Append(Grid(b), [j \in 1..b.cols |-> ""])>>,
                      !.blocks[i].rows = @ + 1], i))

(* addTableColumn that puts the new cell in front of each row *)
addTableColumnFront(s, i) ==
  LET b == s.blocks[i]
  IN IF b.tableData = NoGrid THEN s
     ELSE scheduleSave(rerenderBlock(
            [s EXCEPT !.blocks[i].tableData =
                        <<[r \in DOMAIN Grid(b) |->
                            <<IF r = 1 THEN HeaderCell(b.cols + 1) ELSE "">> \o Grid(b)[r]]>>,
                      !.blocks[i].cols = @ + 1], i))

addTableColumn(s, i) ==
  LET b == s.blocks[i]
  IN IF b.tableData = NoGrid THEN s
     ELSE scheduleSave(rerenderBlock(
            [s EXCEPT !.blocks[i].tableData =
                        <<[r \in DOMAIN Grid(b) |->
                            Append(Grid(b)[r], IF r = 1 THEN HeaderCell(b.cols + 1) ELSE "")]>>,
                      !.blocks[i].cols = @ + 1], i))

(* removeTableRow without the test of block.rows *)
removeTableRowBelowOne(s, i) ==
  LET b == s.blocks[i]
  IN IF b.tableData = NoGrid THEN s
     ELSE scheduleSave(rerenderBlock(
            [s EXCEPT !.blocks[i].tableData = <<SubSeq(Grid(b), 1, Len(Grid(b)) - 1)>>,
                      !.blocks[i].rows = @ - 1], i))

removeTableRow(s, i) ==
  LET b == s.blocks[i]
  IN IF b.tableData = NoGrid \/ b.rows <= 1 THEN s
     ELSE scheduleSave(rerenderBlock(
            [s EXCEPT !.blocks[i].tableData = <<SubSeq(Grid(b), 1, Len(Grid(b)) - 1)>>,
                      !.blocks[i].rows = @ - 1], i))

(* removeTableColumn without block.cols-- *)
removeTableColumnKeepCols(s, i) ==
  LET b == s.blocks[i]
  IN IF b.tableData = NoGrid \/ b.cols <= 1 THEN s
     ELSE scheduleSave(rerenderBlock(
            [s EXCEPT !.blocks[i].tableData =
                        <<[r \in DOMAIN Grid(b) |->
                            SubSeq(Grid(b)[r], 1, Len(Grid(b)[r]) - 1)]>>], i))

removeTableColumn(s, i) ==
  LET b == s.blocks[i]
  IN IF b.tableData = NoGrid \/ b.cols <= 1 THEN s
     ELSE scheduleSave(rerenderBlock(
            [s EXCEPT !.blocks[i].tableData =
                        <<[r \in DOMAIN Grid(b) |->
                            SubSeq(Grid(b)[r], 1, Len(Grid(b)[r]) - 1)]>>,
                      !.blocks[i].cols = @ - 1], i))

(* ----------------------------- storage --------------------------------- *)
(* IndexedDB runs the readwrite transactions of one store in the order     *)
(* they were created, and every StorageManager method creates its          *)
(* transaction when it is called: a write or a read takes effect at the    *)
(* call, and the caller resumes later.                                     *)

(* store.put(element) on 'elements' (StorageManager.saveElement) *)
saveElement(els, element) == {r \in els : r.id # element.id} \cup {element}

(* index.getAll(noteId) on 'elements' (StorageManager.getElementsByNote) *)
getElementsByNote(els, n) == {r \in els : r.canvasId = n}

(* store.put(note) on 'canvases' (StorageManager.updateNote) *)
updateNote(cs, note) == {c \in cs : c.id # note.id} \cup {note}

(* store.get(id) on 'canvases' (StorageManager.getNote): <<>> is undefined *)
getNote(cs, n) ==
  IF \E c \in cs : c.id = n THEN <<CHOOSE c \in cs : c.id = n>> ELSE <<>>

(* blocksData.sort((a, b) => (a.order || 0) - (b.order || 0)): getAll      *)
(* returns the records in key order and the sort is stable                 *)
RECURSIVE sortByOrder(_)
sortByOrder(S) ==
  IF S = {} THEN <<>>
  ELSE LET first == CHOOSE r \in S : \A q \in S :
                      OrNum(r, "order", 0) < OrNum(q, "order", 0)
                      \/ (OrNum(r, "order", 0) = OrNum(q, "order", 0) /\ r.id <= q.id)
       IN <<first>> \o sortByOrder(S \ {first})

(* the blocks loadNote builds from the records blocksData *)
loadedBlocks(blocksData) ==
  LET sorted == sortByOrder(blocksData)
  IN [i \in DOMAIN sorted |-> createElement(deserialize(sorted[i], 0, T0))]

(* the record save() hands to Storage.saveElement for the block at i (from 1) *)
elementRecord(n, bs, i) ==
  [canvasId |-> n, order |-> i - 1] @@ serialize(bs[i])

saveRecord(i) == elementRecord(noteId, blocks, i)

(* the records a completed save() of the blocks bs leaves for the note n *)
Stored(n, bs) == {elementRecord(n, bs, i) : i \in DOMAIN bs}

(* ------------------------------ Init ----------------------------------- *)
Idle == [pc |-> "idle"]

NoOutgoing == [note |-> NoNote, blocks |-> <<>>]

(* The page has been opened: nothing is loaded yet, and the store holds    *)
(* one of the documents Docs that earlier sessions saved.                  *)
InitWith(Docs) ==
  /\ noteId = NoNote
  /\ noteData = <<>>
  /\ blocks = <<>>
  /\ numbers = <<>>
  /\ timers = <<>>
  /\ saveStatus = ""
  /\ saves = <<>>
  /\ load = Idle
  /\ canvases = {[id |-> n] : n \in NoteIds}
  /\ elements \in Docs
  /\ elapsed = 0
  /\ shownNote = NoNote
  /\ outgoing = NoOutgoing
  /\ dirty = FALSE
  /\ loads = 0
  /\ openTabs = <<>>
  /\ activeTabIndex = 0
  /\ appOp = Idle
  /\ hasReceivedFirstContent = FALSE
  /\ pendingAutoTitle = FALSE
  /\ titleReqs = <<>>

(* ------------------------- handler actions ----------------------------- *)
(* A handler runs to completion on the document that is shown; s is the   *)
(* state it leaves.                                                        *)
ApplyEdit(s) ==
  /\ shownNote # NoNote
  /\ blocks' = s.blocks
  /\ numbers' = s.numbers
  /\ elements' = s.elements
  /\ timers' = s.timers
  /\ saveStatus' = s.status
  /\ elapsed' = s.elapsed
  /\ dirty' = (dirty \/ s.blocks # blocks)
  /\ UNCHANGED <<noteId, noteData, saves, load, canvases, shownNote, outgoing,
                 loads, appVars>>

Apply(s) ==
  /\ ApplyEdit(s)
  /\ UNCHANGED titleVars

(* Contents longer than MaxLen are not followed. *)
Commit(s) ==
  /\ \A i \in DOMAIN s.blocks : Len(s.blocks[i].content) <= MaxLen
  /\ Apply(s)

(* BlockEditor.extractBlockTextContent, for the blocks whose text is their *)
(* content                                                                 *)
extractBlockTextContent(b) ==
  IF b.type \in {"text", "h1", "h2", "h3", "bullet", "numbered", "todo", "quote",
                 "callout", "code", "toggle"}
  THEN textContent(b.content)
  ELSE <<>>

(* loadNote: the note already has content *)
existingContent(bs) ==
  \E i \in DOMAIN bs : trim(extractBlockTextContent(bs[i])) # <<>>

(* the note's name: this.noteData?.name || '' *)
noteName(nd) == IF nd = <<>> THEN "" ELSE OrStr(nd[1], "name", "")

(* the title counts as untitled *)
isUntitled(name) == name \in {"", "Untitled", "untitled"}

(* String.prototype.length of a content: a token is one character, but    *)
(* for LongText                                                            *)
RECURSIVE charCount(_)
charCount(c) ==
  IF c = <<>> THEN 0
  ELSE (IF Head(c) = LongText THEN LongTextChars ELSE 1) + charCount(Tail(c))

(* BlockEditor.getAllBlocksTextContent: the texts that are not blank,      *)
(* joined by two line feeds                                                *)
RECURSIVE joinTexts(_)
joinTexts(ts) ==
  IF ts = <<>> THEN <<>>
  ELSE IF Len(ts) = 1 THEN ts[1]
  ELSE ts[1] \o <<"\n", "\n">> \o joinTexts(Tail(ts))

getAllBlocksTextContent(bs) ==
  joinTexts(SelectSeq([i \in DOMAIN bs |-> extractBlockTextContent(bs[i])],
                      LAMBDA t : trim(t) # <<>>))

(* BlockEditor.checkFirstContentAutoTitle up to its first await, called by *)
(* onBlockInput on the blocks bs: the request it leaves waits for          *)
(* Storage.getSetting('autoTitleEnabled'), and records the note whose      *)
(* blocks gave the content                                                 *)
checkFirstContentAutoTitle(bs) ==
  IF hasReceivedFirstContent \/ pendingAutoTitle
  THEN UNCHANGED titleVars
  ELSE IF charCount(trim(getAllBlocksTextContent(bs))) < MinTitleChars
  THEN UNCHANGED titleVars
  ELSE /\ hasReceivedFirstContent' = TRUE
       /\ pendingAutoTitle' = pendingAutoTitle
       /\ titleReqs' = IF isUntitled(noteName(noteData))
                       THEN Append(titleReqs, [pc |-> "setting", note |-> shownNote])
                       ELSE titleReqs

OnBlockInput(C) ==
  \E i \in DOMAIN blocks, c \in C :
    /\ hasContentElement(blocks[i])
    /\ \A s \in {onBlockInput(Cur, i, c)} :
         /\ \A j \in DOMAIN s.blocks : Len(s.blocks[j].content) <= MaxLen
         /\ ApplyEdit(s)
         /\ checkFirstContentAutoTitle(s.blocks)

(* the input event of a content that becomes one of the contents C,       *)
(* whatever its length                                                     *)
OnTyped(C) ==
  \E i \in DOMAIN blocks, c \in C :
    /\ hasContentElement(blocks[i])
    /\ \A s \in {onBlockInput(Cur, i, c)} :
         /\ ApplyEdit(s)
         /\ checkFirstContentAutoTitle(s.blocks)

OnEnter ==
  \E i \in DOMAIN blocks :
    /\ hasContentElement(blocks[i])
    /\ CanCreate(Cur)
    /\ \E p \in 0..Len(blocks[i].content) : Commit(onEnter(Cur, i, p))

OnBackspace ==
  \E i \in DOMAIN blocks :
    /\ hasContentElement(blocks[i])
    /\ Commit(onBackspace(Cur, i))

OnDelete ==
  \E i \in DOMAIN blocks :
    /\ hasContentElement(blocks[i])
    /\ Commit(onDelete(Cur, i))

OnDrop ==
  \E draggedId \in ids(blocks) \cup {0}, targetId \in ids(blocks) :
    Commit(onDrop(Cur, draggedId, targetId))

AddBlockAtEnd ==
  /\ CanCreate(Cur)
  /\ Commit(addBlockAtEnd(Cur))

InsertBlockAfter(T, C) ==
  \E afterId \in ids(blocks) \cup {0}, type \in T, c \in C :
    /\ CanCreate(Cur)
    /\ Commit(insertBlockAfter(Cur, afterId, type, c))

DeleteBlock ==
  \E blockId \in ids(blocks) \cup {0} :
    /\ blocks # <<>>
    /\ Commit(deleteBlock(Cur, blockId))

(* selectSlashMenuItem / onSlashMenuClick: changeBlockType(activeBlock, type) *)
ChangeBlockType(T) ==
  \E blockId \in ids(blocks) \cup {0}, type \in T :
    /\ blocks # <<>>
    /\ Commit(changeBlockType(Cur, blockId, type))

OnTodoClick ==
  \E i \in DOMAIN blocks :
    /\ blocks[i].type = "todo"
    /\ Commit(onTodoClick(Cur, i))

OnToggleClick ==
  \E i \in DOMAIN blocks :
    /\ blocks[i].type = "toggle"
    /\ Commit(onToggleClick(Cur, i))

OnEquationBlur(E) ==
  \E i \in DOMAIN blocks, value \in E :
    /\ blocks[i].type = "equation"
    /\ Commit(onEquationBlur(Cur, i, value))

AddTableRow ==
  \E i \in DOMAIN blocks :
    /\ blocks[i].type = "table" /\ blocks[i].rows < MaxGrid
    /\ Commit(addTableRow(Cur, i))

AddTableColumn ==
  \E i \in DOMAIN blocks :
    /\ blocks[i].type = "table" /\ blocks[i].cols < MaxGrid
    /\ Commit(addTableColumn(Cur, i))

RemoveTableRow ==
  \E i \in DOMAIN blocks :
    /\ blocks[i].type = "table"
    /\ Commit(removeTableRow(Cur, i))

RemoveTableColumn ==
  \E i \in DOMAIN blocks :
    /\ blocks[i].type = "table"
    /\ Commit(removeTableColumn(Cur, i))

(* the user types in the first or in the last cell of a table *)
OnCellInput(Texts) ==
  \E i \in DOMAIN blocks, text \in Texts :
    /\ blocks[i].type = "table"
    /\ \E row \in {1, blocks[i].rows}, col \in {1, blocks[i].cols} :
         /\ row = 1 <=> col = 1
         /\ Commit(onCellInput(Cur, i, row, col, text))

(* --------------------------- time and save ----------------------------- *)
(* q milliseconds pass while a timer is waiting. *)
Tick(q) ==
  /\ \E k \in DOMAIN timers : timers[k].left > 0
  /\ timers' = [k \in DOMAIN timers |->
                  [timers[k] EXCEPT !.left = Max(0, @ - q)]]
  /\ elapsed' = Min(elapsed + q, SaveDelay)
  /\ UNCHANGED <<noteId, noteData, blocks, numbers, saveStatus, saves, load, canvases,
                 elements, shownNote, outgoing, dirty, loads, appVars, titleVars>>

(* A suspended save(): i blocks have been handed to Storage.saveElement;   *)
(* rejected tells that the write it awaits fails.                          *)
SaveProc(i, ok) == [i |-> i, rejected |-> ~ok]

(* BlockEditor.save up to its first await: the timer of scheduleSave       *)
(* expired and its callback runs.  OK holds the outcomes a write can have. *)
SaveStart(OK) ==
  \E k \in DOMAIN timers, ok \in OK :
    /\ timers[k].left = 0
    /\ Len(saves) < MaxSaves
    /\ timers' = RemoveAt(timers, k)
    /\ dirty' = FALSE
    /\ IF noteData # <<>>
       THEN /\ canvases' = IF ok THEN updateNote(canvases, noteData[1]) ELSE canvases
            /\ saves' = Append(saves, SaveProc(0, ok))
            /\ UNCHANGED <<elements, saveStatus>>
       ELSE IF Len(blocks) > 0
       THEN /\ elements' = IF ok THEN saveElement(elements, saveRecord(1)) ELSE elements
            /\ saves' = Append(saves, SaveProc(1, ok))
            /\ UNCHANGED <<canvases, saveStatus>>
       ELSE /\ saveStatus' = "Saved"
            /\ ok
            /\ UNCHANGED <<canvases, elements, saves>>
    /\ UNCHANGED <<noteId, noteData, blocks, numbers, load, elapsed, shownNote, outgoing,
                   loads, appVars, titleVars>>

(* save() resumes after a write that succeeded and writes the next block *)
SaveWriteBlock(OK) ==
  \E k \in DOMAIN saves, ok \in OK :
    /\ ~saves[k].rejected
    /\ saves[k].i < Len(blocks)
    /\ elements' = IF ok THEN saveElement(elements, saveRecord(saves[k].i + 1))
                   ELSE elements
    /\ saves' = [saves EXCEPT ![k] = SaveProc(saves[k].i + 1, ok)]
    /\ UNCHANGED <<noteId, noteData, blocks, numbers, timers, saveStatus, load, canvases,
                   elapsed, shownNote, outgoing, dirty, loads, appVars, titleVars>>

(* save() resumes after a write that succeeded and leaves the loop *)
SaveDone ==
  \E k \in DOMAIN saves :
    /\ ~saves[k].rejected
    /\ saves[k].i >= Len(blocks)
    /\ saveStatus' = "Saved"
    /\ saves' = RemoveAt(saves, k)
    /\ UNCHANGED <<noteId, noteData, blocks, numbers, timers, load, canvases, elements,
                   elapsed, shownNote, outgoing, dirty, loads, appVars, titleVars>>

(* a catch block that schedules another attempt *)
saveCatchRetry(s) == scheduleSave([s EXCEPT !.status = "Error saving"])

(* the catch block of save(): the awaited write was rejected *)
saveCatch(s) == [s EXCEPT !.status = "Error saving"]

SaveRejected ==
  \E k \in DOMAIN saves :
    /\ saves[k].rejected
    /\ saves' = RemoveAt(saves, k)
    /\ LET s == saveCatch(Cur)
       IN /\ blocks' = s.blocks
          /\ numbers' = s.numbers
          /\ elements' = s.elements
          /\ timers' = s.timers
          /\ saveStatus' = s.status
          /\ elapsed' = s.elapsed
    /\ UNCHANGED <<noteId, noteData, load, canvases, shownNote, outgoing, dirty, loads, appVars, titleVars>>

(* ------------------------------ loadNote ------------------------------- *)
(* loadNote up to await Storage.getNote(noteId) *)
LoadStart(N) ==
  \E n \in N :
    /\ load.pc = "idle"
    /\ loads < MaxLoads
    /\ loads' = loads + 1
    /\ noteId' = n
    /\ load' = [pc |-> "getNote", note |-> n, found |-> getNote(canvases, n)]
    /\ outgoing' = IF shownNote \notin {NoNote, n}
                   THEN [note |-> shownNote, blocks |-> blocks]
                   ELSE outgoing
    /\ UNCHANGED <<noteData, blocks, numbers, timers, saveStatus, saves, canvases, elements,
                   elapsed, shownNote, dirty, appVars, titleVars>>

(* App.init: the page opens and loads a note *)
PageLoad(N) ==
  /\ shownNote = NoNote
  /\ LoadStart(N)

(* ... up to the awaits of renderInsights / startInsightsPollingIfNeeded *)
LoadGotNote ==
  /\ load.pc = "getNote"
  /\ noteData' = load.found
  /\ load' = IF load.found = <<>> THEN Idle ELSE [pc |-> "insights", note |-> load.note]
  /\ UNCHANGED <<noteId, blocks, numbers, timers, saveStatus, saves, canvases, elements,
                 elapsed, shownNote, outgoing, dirty, loads, appVars, titleVars>>

(* ... up to await Storage.getElementsByNote(noteId) *)
LoadGetElements ==
  /\ load.pc = "insights"
  /\ load' = [pc |-> "elements", note |-> load.note,
              data |-> getElementsByNote(elements, load.note)]
  /\ UNCHANGED <<noteId, noteData, blocks, numbers, timers, saveStatus, saves, canvases,
                 elements, elapsed, shownNote, outgoing, dirty, loads, appVars, titleVars>>

(* BlockEditor.getNextBlockOrder: b.order of a Block in memory, which the   *)
(* constructor never sets, is undefined                                    *)
getNextBlockOrder(s) ==
  IF Len(s.blocks) = 0 THEN 0
  ELSE LET maxOrder == CHOOSE m \in {OrNum(s.blocks[i], "order", 0) : i \in DOMAIN s.blocks} :
                         \A i \in DOMAIN s.blocks : OrNum(s.blocks[i], "order", 0) <= m
       IN maxOrder + 1

(* the record App.appendAIResponseToNote hands to Storage.saveElement *)
appendedRecord(s, content) ==
  [id |-> generateId(s), canvasId |-> noteId, type |-> "text", content |-> content,
   order |-> getNextBlockOrder(s), createdAt |-> T0, updatedAt |-> T0]

(* App.appendAIResponseToNote up to the first await of the loadNote it     *)
(* calls                                                                   *)
AppendAIResponseToNote(C) ==
  \E content \in C :
    /\ noteId # NoNote
    /\ load.pc = "idle"
    /\ loads < MaxLoads
    /\ IdPool \ UsedIds(Cur) # {}
    /\ elements' = saveElement(elements, appendedRecord(Cur, content))
    /\ loads' = loads + 1
    /\ load' = [pc |-> "getNote", note |-> noteId, found |-> getNote(canvases, noteId)]
    /\ UNCHANGED <<noteId, noteData, blocks, numbers, timers, saveStatus, saves,
                   canvases, elapsed, shownNote, outgoing, dirty, appVars, titleVars>>

(* ... to the end: the blocks are replaced and an empty note gets a block *)
loadNoteBlocks(s, blocksData) ==
  LET loaded == loadedBlocks(blocksData)
  IN IF Len(loaded) = 0
     THEN <<createElement(createBlock([s EXCEPT !.blocks = <<>>], "text", <<>>))>>
     ELSE loaded

LoadDone ==
  /\ load.pc = "elements"
  /\ load.data # {} \/ IdPool \ UsedIds(Cur) # {}
  /\ blocks' = loadNoteBlocks(Cur, load.data)
  /\ numbers' = renderBlocks([Cur EXCEPT !.blocks = loadNoteBlocks(Cur, load.data)]).numbers
  /\ shownNote' = load.note
  /\ hasReceivedFirstContent' = existingContent(loadNoteBlocks(Cur, load.data))
  /\ pendingAutoTitle' = FALSE
  /\ load' = Idle
  /\ UNCHANGED <<noteId, noteData, timers, saveStatus, saves, canvases, elements,
                 elapsed, outgoing, dirty, loads, appVars, titleReqs>>

(* ------------------------- notes list and tabs ------------------------- *)
(* StorageManager.getAllNotes(): neither trashed nor archived *)
getAllNotes(cs) == {c \in cs : ~OrBool(c, "trashed") /\ ~OrBool(c, "archived")}

(* StorageManager.isNoteUntitled *)
isNoteUntitled(note) == OrStr(note, "name", "") \in {"", "Untitled", "untitled"}

(* StorageManager.isNoteEmpty *)
isNoteEmpty(els, n) ==
  \A el \in getElementsByNote(els, n) :
    /\ trim(textContent(OrSeq(el, "content", <<>>))) = <<>>
    /\ OrStr(el, "imageUrl", "") = ""
    /\ OrStr(el, "videoUrl", "") = ""
    /\ OrSeq(el, "tableData", NoGrid) = NoGrid
         \/ \A row \in DOMAIN Grid(el) : \A col \in DOMAIN Grid(el)[row] :
              Grid(el)[row][col] \in {"", " "} \cup {HeaderCell(j) : j \in 1..MaxGrid + 1}
    /\ trim(textContent(OrSeq(el, "children", <<>>))) = <<>>
    /\ OrStr(el, "equation", "") = ""

(* StorageManager.permanentlyDeleteNote: the store after it *)
deleteElementsByNote(els, n) == els \ getElementsByNote(els, n)

deleteNoteRecord(cs, n) == {c \in cs : c.id # n}

(* loadNote called by the app, up to await Storage.getNote: the note is    *)
(* read from the store cs                                                  *)
loadNote(cs, n) ==
  /\ noteId' = n
  /\ load' = [pc |-> "getNote", note |-> n, found |-> getNote(cs, n)]
  /\ outgoing' = IF shownNote \notin {NoNote, n}
                 THEN [note |-> shownNote, blocks |-> blocks]
                 ELSE outgoing

(* Array.prototype.findIndex on the tabs, from 0; -1 when there is none *)
tabIndexOf(tabs, n) ==
  IF \E i \in DOMAIN tabs : tabs[i] = n
  THEN (CHOOSE i \in DOMAIN tabs : tabs[i] = n /\ \A j \in 1..(i - 1) : tabs[j] # n) - 1
  ELSE 0 - 1

(* App.closeTab(index): the tabs and the active index it leaves *)
closeTab(tabs, active, index) ==
  LET left == RemoveAt(tabs, index + 1)
  IN [tabs |-> left,
      active |-> IF active >= Len(left) THEN Len(left) - 1
                 ELSE IF active > index THEN active - 1
                 ELSE IF active = index THEN Min(index, Len(left) - 1)
                 ELSE active]

(* App.loadSavedTabs, no tabs having been saved: the end of App.init *)
LoadSavedTabs ==
  /\ shownNote # NoNote
  /\ load = Idle
  /\ appOp = Idle
  /\ openTabs = <<>>
  /\ openTabs' = <<noteId>>
  /\ activeTabIndex' = 0
  /\ loadNote(canvases, noteId)
  /\ UNCHANGED <<noteData, blocks, numbers, timers, saveStatus, saves, canvases, elements,
                 elapsed, shownNote, dirty, loads, appOp, titleVars>>

(* App.switchToTab(index) up to the first await of loadNote *)
SwitchToTab ==
  \E index \in 0..(Len(openTabs) - 1) :
    /\ load = Idle
    /\ appOp = Idle
    /\ activeTabIndex' = index
    /\ loadNote(canvases, openTabs[index + 1])
    /\ UNCHANGED <<noteData, blocks, numbers, timers, saveStatus, saves, canvases, elements,
                   elapsed, shownNote, dirty, loads, openTabs, appOp, titleVars>>

(* App.openNoteInNewTab(n), the note being in the store, up to the first   *)
(* await of loadNote                                                       *)
OpenNoteInNewTab(N) ==
  \E n \in N :
    /\ load = Idle
    /\ appOp = Idle
    /\ openTabs # <<>>
    /\ getNote(canvases, n) # <<>>
    /\ IF tabIndexOf(openTabs, n) # 0 - 1
       THEN /\ activeTabIndex' = tabIndexOf(openTabs, n)
            /\ UNCHANGED openTabs
       ELSE /\ openTabs' = Append(openTabs, n)
            /\ activeTabIndex' = Len(openTabs)
    /\ loadNote(canvases, n)
    /\ UNCHANGED <<noteData, blocks, numbers, timers, saveStatus, saves, canvases, elements,
                   elapsed, shownNote, dirty, loads, appOp, titleVars>>

(* App.closeTab(index), more than one tab being open, up to the first      *)
(* await of loadNote                                                       *)
CloseTab ==
  \E index \in 0..(Len(openTabs) - 1) :
    /\ load = Idle
    /\ appOp = Idle
    /\ Len(openTabs) > 1
    /\ \A t \in {closeTab(openTabs, activeTabIndex, index)} :
         /\ openTabs' = t.tabs
         /\ activeTabIndex' = t.active
         /\ loadNote(canvases, t.tabs[t.active + 1])
    /\ UNCHANGED <<noteData, blocks, numbers, timers, saveStatus, saves, canvases, elements,
                   elapsed, shownNote, dirty, loads, appOp, titleVars>>

(* App.archiveNote(n) up to await this.closeTabForNote: Storage.archiveNote *)
ArchiveNote(N) ==
  \E n \in N :
    /\ appOp = Idle
    /\ openTabs # <<>>
    /\ getNote(canvases, n) \in {<<c>> : c \in getAllNotes(canvases)}
    /\ canvases' = updateNote(canvases,
                      [archived |-> TRUE, archivedAt |-> T0] @@ getNote(canvases, n)[1])
    /\ appOp' = [pc |-> "closeTab", note |-> n]
    /\ UNCHANGED <<noteId, noteData, blocks, numbers, timers, saveStatus, saves, load,
                   elements, elapsed, shownNote, outgoing, dirty, loads, openTabs,
                   activeTabIndex, titleVars>>

(* App.trashNoteById(n) up to await this.closeTabForNote: Storage.trashNote *)
TrashNoteById(N) ==
  \E n \in N :
    /\ appOp = Idle
    /\ openTabs # <<>>
    /\ getNote(canvases, n) \in {<<c>> : c \in getAllNotes(canvases)}
    /\ IF isNoteUntitled(getNote(canvases, n)[1]) /\ isNoteEmpty(elements, n)
       THEN /\ elements' = deleteElementsByNote(elements, n)
            /\ canvases' = deleteNoteRecord(canvases, n)
       ELSE /\ canvases' = updateNote(canvases,
                              [trashed |-> TRUE, trashedAt |-> T0, archived |-> FALSE]
                                @@ getNote(canvases, n)[1])
            /\ UNCHANGED elements
    /\ appOp' = [pc |-> "closeTab", note |-> n]
    /\ UNCHANGED <<noteId, noteData, blocks, numbers, timers, saveStatus, saves, load,
                   elapsed, shownNote, outgoing, dirty, loads, openTabs, activeTabIndex,
                   titleVars>>

(* App.permanentlyDeleteNoteById(n), from the trash list and confirmed *)
PermanentlyDeleteNoteById(N) ==
  \E n \in N :
    /\ appOp = Idle
    /\ \E c \in canvases : c.id = n /\ OrBool(c, "trashed")
    /\ elements' = deleteElementsByNote(elements, n)
    /\ canvases' = deleteNoteRecord(canvases, n)
    /\ UNCHANGED <<noteId, noteData, blocks, numbers, timers, saveStatus, saves, load,
                   elapsed, shownNote, outgoing, dirty, loads, appVars, titleVars>>

(* archiveNote / trashNoteById resume: closeTabForNote, up to the first    *)
(* await of the loadNote of closeTab, or to refreshNotesList               *)
RemovedCloseTab ==
  /\ appOp.pc = "closeTab"
  /\ load = Idle
  /\ \A tabIndex \in {tabIndexOf(openTabs, appOp.note)} :
       IF tabIndex # 0 - 1 /\ Len(openTabs) > 1
       THEN \A t \in {closeTab(openTabs, activeTabIndex, tabIndex)} :
              /\ openTabs' = t.tabs
              /\ activeTabIndex' = t.active
              /\ loadNote(canvases, t.tabs[t.active + 1])
       ELSE UNCHANGED <<openTabs, activeTabIndex, noteId, load, outgoing>>
  /\ appOp' = [pc |-> "removed", note |-> appOp.note]
  /\ UNCHANGED <<noteData, blocks, numbers, timers, saveStatus, saves, canvases, elements,
                 elapsed, shownNote, dirty, loads, titleVars>>

(* ... resume after the loadNote of closeTab: handleNoteRemoved, up to the *)
(* first await of the loadNote of openNoteInNewTab, or to the end          *)
HandleNoteRemoved ==
  /\ appOp.pc = "removed"
  /\ load = Idle
  /\ appOp' = Idle
  /\ IF getAllNotes(canvases) = {}
     THEN \E id \in NewNoteIds \ {c.id : c \in canvases} :
            /\ canvases' = canvases \cup {[id |-> id, name |-> "Untitled", archived |-> FALSE,
                                            titleManuallySet |-> FALSE]}
            /\ openTabs' = Append(openTabs, id)
            /\ activeTabIndex' = Len(openTabs)
            /\ loadNote(canvases', id)
     ELSE IF Len(openTabs) = 0
     THEN \E c \in getAllNotes(canvases) :
            /\ openTabs' = <<c.id>>
            /\ activeTabIndex' = 0
            /\ loadNote(canvases, c.id)
            /\ UNCHANGED canvases
     ELSE UNCHANGED <<openTabs, activeTabIndex, noteId, load, outgoing, canvases>>
  /\ UNCHANGED <<noteData, blocks, numbers, timers, saveStatus, saves, elements, elapsed,
                 shownNote, dirty, loads, titleVars>>

(* ------------------------------ titles --------------------------------- *)
(* What LLM.generateTitle answers: the model names the answer after the    *)
(* caller and the note whose content was sent.                             *)
generateTitle(caller, n) ==
  CASE caller = "setting" /\ n = "n1" -> "first words of n1"
    [] caller = "setting" -> "first words of n2"
    [] n = "n1" -> "summary of n1"
    [] OTHER -> "summary of n2"

(* BlockEditor.setTitleProgrammatically, this.noteData being set *)
setTitleProgrammatically(title) ==
  /\ noteData' = <<[name |-> title, lastAutoTitleAt |-> T0] @@ noteData[1]>>
  /\ \A s \in {scheduleSave(Cur)} :
       /\ timers' = s.timers
       /\ saveStatus' = s.status
       /\ elapsed' = s.elapsed

(* BlockEditor.onTitleChange: the title element holds the text t *)
OnTitleChange(Names) ==
  \E t \in Names :
    /\ shownNote # NoNote
    /\ noteData # <<>>
    /\ LET newTitle == IF t = "" THEN "Untitled" ELSE t
           oldTitle == noteName(noteData)
       IN noteData' = <<[name |-> newTitle] @@
                         (IF oldTitle # newTitle
                          THEN [titleManuallySet |-> TRUE] @@ noteData[1]
                          ELSE noteData[1])>>
    /\ \A s \in {scheduleSave(Cur)} :
         /\ timers' = s.timers
         /\ saveStatus' = s.status
         /\ elapsed' = s.elapsed
    /\ UNCHANGED <<noteId, blocks, numbers, saves, load, canvases, elements, shownNote,
                   outgoing, dirty, loads, appVars, titleVars>>

(* checkFirstContentAutoTitle resumes after Storage.getSetting: Enabled    *)
(* holds the values the setting can have (the LLM is configured)           *)
TitleSettingRead(Enabled) ==
  \E k \in DOMAIN titleReqs, enabled \in Enabled :
    /\ titleReqs[k].pc = "setting"
    /\ IF ~enabled \/ (noteData # <<>> /\ OrBool(noteData[1], "titleManuallySet"))
       THEN /\ titleReqs' = RemoveAt(titleReqs, k)
            /\ UNCHANGED pendingAutoTitle
       ELSE /\ titleReqs' = [titleReqs EXCEPT ![k].pc = "llm"]
            /\ pendingAutoTitle' = TRUE
    /\ UNCHANGED <<noteId, noteData, blocks, numbers, timers, saveStatus, saves, load,
                   canvases, elements, elapsed, shownNote, outgoing, dirty, loads,
                   appVars, hasReceivedFirstContent>>

(* checkFirstContentAutoTitle resumes after LLM.generateTitle, which       *)
(* answered (ok) or failed                                                 *)
TitleGenerated(OK) ==
  \E k \in DOMAIN titleReqs, ok \in OK :
    /\ titleReqs[k].pc = "llm"
    /\ titleReqs' = RemoveAt(titleReqs, k)
    /\ pendingAutoTitle' = FALSE
    /\ IF ok /\ noteData # <<>>
       THEN setTitleProgrammatically(generateTitle("setting", titleReqs[k].note))
       ELSE UNCHANGED <<noteData, timers, saveStatus, elapsed>>
    /\ UNCHANGED <<noteId, blocks, numbers, saves, load, canvases, elements, shownNote,
                   outgoing, dirty, loads, appVars, hasReceivedFirstContent>>

(* App.extractBlockText of the records of a note, joined as                *)
(* generateTitleForNote joins them                                         *)
storedContent(n) ==
  getAllBlocksTextContent(sortByOrder(getElementsByNote(elements, n)))

(* App.generateTitleForNote up to await LLM.generateTitle *)
GenerateTitleForNote(N) ==
  \E n \in N :
    /\ Len(titleReqs) < MaxTitleReqs
    /\ getNote(canvases, n) # <<>>
    /\ charCount(trim(storedContent(n))) >= MinTitleChars
    /\ titleReqs' = Append(titleReqs, [pc |-> "menu", note |-> n,
                                       found |-> getNote(canvases, n)[1],
                                       isCurrentNote |-> (noteId = n)])
    /\ UNCHANGED <<noteId, noteData, blocks, numbers, timers, saveStatus, saves, load,
                   canvases, elements, elapsed, shownNote, outgoing, dirty, loads,
                   appVars, hasReceivedFirstContent, pendingAutoTitle>>

(* ... to the end: the title arrived (ok) or the request failed *)
GenerateTitleDone(OK) ==
  \E k \in DOMAIN titleReqs, ok \in OK :
    /\ titleReqs[k].pc = "menu"
    /\ titleReqs' = RemoveAt(titleReqs, k)
    /\ \A newTitle \in {generateTitle("menu", titleReqs[k].note)} :
         /\ canvases' = IF ok
                        THEN updateNote(canvases,
                               [name |-> newTitle, lastAutoTitleAt |-> T0]
                                 @@ titleReqs[k].found)
                        ELSE canvases
         /\ IF ok /\ titleReqs[k].isCurrentNote /\ noteData # <<>>
            THEN setTitleProgrammatically(newTitle)
            ELSE UNCHANGED <<noteData, timers, saveStatus, elapsed>>
    /\ UNCHANGED <<noteId, blocks, numbers, saves, load, elements, shownNote, outgoing,
                   dirty, loads, appVars, hasReceivedFirstContent, pendingAutoTitle>>

(* ------------------------- the specifications -------------------------- *)
SaveContents == SeqsUpTo({"a"}, MaxLen)

TextBlock(id, content) == Block([type |-> "text", content |-> content], id, T0)

(* The editor with its storage and one note, new or saved by an earlier    *)
(* session with two text blocks: the page loads the note (App.init), the  *)
(* user types, merges and reorders text blocks, time passes, and a write   *)
(* to storage succeeds or fails.                                           *)
SavedNote ==
  {{}, Stored("n1", <<TextBlock(1, <<"a">>), TextBlock(2, <<>>)>>)}

Init == InitWith(SavedNote)

Next ==
  \/ OnBlockInput(SaveContents)
  \/ OnBackspace
  \/ OnDrop
  \/ Tick(Quantum)
  \/ SaveStart(BOOLEAN)
  \/ SaveWriteBlock(BOOLEAN)
  \/ SaveDone
  \/ SaveRejected
  \/ PageLoad({"n1"})
  \/ LoadGotNote
  \/ LoadGetElements
  \/ LoadDone

Spec == Init /\ [][Next]_vars

(* The editor with its storage and two saved notes: the user types and     *)
(* splits text blocks and switches between the notes, time passes, and     *)
(* every write succeeds.                                                   *)
SavedNotes ==
  {Stored("n1", <<TextBlock(1, <<"a">>)>>) \cup Stored("n2", <<TextBlock(2, <<>>)>>)}

InitSwitch == InitWith(SavedNotes)

NextSwitch ==
  \/ OnBlockInput(SaveContents)
  \/ OnEnter
  \/ Tick(SaveDelay)
  \/ SaveStart({TRUE})
  \/ SaveWriteBlock({TRUE})
  \/ SaveDone
  \/ LoadStart(NoteIds)
  \/ LoadGotNote
  \/ LoadGetElements
  \/ LoadDone

SpecSwitch == InitSwitch /\ [][NextSwitch]_vars

(* The editor alone, on a new note or on a note an earlier session saved:  *)
(* one block of any of the types edited here, or a text block next to a    *)
(* divider or an image.  The page loads the note and the user edits it     *)
(* with every handler of the editor.  No time passes: a scheduled save     *)
(* stays pending.                                                          *)

(* the types Backspace and Delete do not merge into *)
Atomic == {"divider", "image"}

EditTypes == {"text", "bullet", "numbered", "todo", "divider", "image", "table",
              "toggle", "equation"}
MenuTypes == {"text", "bullet"}
Equations == {"x"}

DocBlock(id, type, content) ==
  createElement(Block([type |-> type, content |-> content], id, T0))

EditDocs ==
  {{}}
  \cup {Stored("n1", <<DocBlock(1, t, <<"a">>)>>) : t \in EditTypes \ Atomic}
  \cup {Stored("n1", <<DocBlock(1, t, <<>>), DocBlock(2, "text", <<"a">>)>>) :
          t \in Atomic}
  \cup {Stored("n1", <<DocBlock(1, "text", <<"a">>), DocBlock(2, t, <<>>)>>) :
          t \in Atomic}

InitEdit == InitWith(EditDocs)

NextEdit ==
  \/ OnBlockInput(SaveContents)
  \/ OnEnter
  \/ OnBackspace
  \/ OnDelete
  \/ OnDrop
  \/ AddBlockAtEnd
  \/ InsertBlockAfter(MenuTypes, {<<>>})
  \/ DeleteBlock
  \/ ChangeBlockType(MenuTypes)
  \/ OnTodoClick
  \/ OnToggleClick
  \/ OnEquationBlur(Equations)
  \/ AddTableRow
  \/ AddTableColumn
  \/ RemoveTableRow
  \/ RemoveTableColumn
  \/ PageLoad({"n1"})
  \/ LoadGotNote
  \/ LoadGetElements
  \/ LoadDone

SpecEdit == InitEdit /\ [][NextEdit]_vars

(* The editor alone, on a note of three blocks an earlier session saved:   *)
(* text blocks (one holding only a line break) and a list item, or a text  *)
(* block between a table and a divider.  The page loads the note and the   *)
(* user types, splits and merges blocks with the keyboard and drags them.  *)
(* No time passes.                                                         *)
OpsDocs ==
  {Stored("n1", <<DocBlock(1, "text", <<"<br>">>), DocBlock(2, "text", <<"a">>),
                  DocBlock(3, "bullet", <<"a">>)>>),
   Stored("n1", <<DocBlock(1, "table", <<>>), DocBlock(2, "text", <<"a">>),
                  DocBlock(3, "divider", <<>>)>>)}

OpsTypes == {"bullet", "table"}

InitOps == InitWith(OpsDocs)

NextOps ==
  \/ OnBlockInput(SaveContents)
  \/ OnEnter
  \/ OnBackspace
  \/ OnDelete
  \/ OnDrop
  \/ PageLoad({"n1"})
  \/ LoadGotNote
  \/ LoadGetElements
  \/ LoadDone

SpecOps == InitOps /\ [][NextOps]_vars

(* The same notes, edited through the editor's methods: blocks are         *)
(* inserted, deleted, converted and dragged.  No time passes.              *)
NextCalls ==
  \/ InsertBlockAfter(OpsTypes, {<<>>})
  \/ DeleteBlock
  \/ ChangeBlockType(OpsTypes)
  \/ OnDrop
  \/ PageLoad({"n1"})
  \/ LoadGotNote
  \/ LoadGetElements
  \/ LoadDone

SpecCalls == InitOps /\ [][NextCalls]_vars

(* The editor alone, on a saved note of one text block.  The page loads    *)
(* the note and the user types or pastes a content that starts with a      *)
(* markdown prefix, or with none, converts the block back to text with     *)
(* Backspace and clicks the checkbox of a to-do.  No time passes.          *)
FormatDocs == {Stored("n1", <<TextBlock(1, <<"a">>)>>)}

FormatContents ==
  { <<"a">>, <<"#", "a">>, <<"a", "<br>">>,
    <<"#", " ", "a">>, <<"#", "#", " ", "a">>, <<"#", "#", "#", " ", "a">>,
    <<"-", " ", "a">>, <<"*", " ", "a">>, <<"1", ".", " ", "a">>,
    <<"[", "]", " ", "a">>, <<"[", " ", "]", " ", "a">>, <<">", " ", "a">>,
    <<Backtick, Backtick, Backtick, " ", "a">>,
    <<"-", "-", "-">>, <<"-", "-", "-", "a">>, <<"#", " ", "<br>">> }

InitFormat == InitWith(FormatDocs)

NextFormat ==
  \/ OnTyped(FormatContents)
  \/ OnBackspace
  \/ OnTodoClick
  \/ PageLoad({"n1"})
  \/ LoadGotNote
  \/ LoadGetElements
  \/ LoadDone

SpecFormat == InitFormat /\ [][NextFormat]_vars

(* The editor alone, on a saved note of one block whose record lacks       *)
(* fields: a table record with rows and cols but no tableData, a record    *)
(* of a type with a payload that holds the common fields only; or on a     *)
(* note of one table with a text in every cell.  The page loads the note   *)
(* and the user adds and removes rows and columns and types in cells.  No  *)
(* time passes.                                                            *)
PayloadTypes == {"toggle", "table", "bookmark", "video", "file", "equation"}

(* the record r without the fields F *)
Lacking(r, F) == [f \in DOMAIN r \ F |-> r[f]]

CellTexts == <<<<"a", "b">>, <<"c", "d">>>>

TableDocs ==
  {{Lacking(elementRecord("n1",
              <<Block([type |-> "table", rows |-> r, cols |-> c], 1, T0)>>, 1),
            {"tableData"})} : r \in 1..MaxGrid, c \in 1..MaxGrid}
  \cup {{[elementRecord("n1", <<TextBlock(1, <<>>)>>, 1) EXCEPT !.type = t]} :
          t \in PayloadTypes}
  \cup {Stored("n1", <<Block([type |-> "table", rows |-> 2, cols |-> 2,
                              tableData |-> <<CellTexts>>], 1, T0)>>)}

InitTable == InitWith(TableDocs)

NextTable ==
  \/ OnCellInput({"x"})
  \/ AddTableRow
  \/ AddTableColumn
  \/ RemoveTableRow
  \/ RemoveTableColumn
  \/ PageLoad({"n1"})
  \/ LoadGotNote
  \/ LoadGetElements
  \/ LoadDone

SpecTable == InitTable /\ [][NextTable]_vars

(* The editor and the chat panel, on a saved note of one to three text     *)
(* blocks, empty or not.  The page loads the note, the user drags blocks   *)
(* and appends an answer of the assistant to the note, which reloads it.   *)
(* No time passes.                                                         *)
AppendDocs ==
  UNION {{Stored("n1", [i \in 1..n |-> TextBlock(i, cs[i])]) :
            cs \in [1..n -> SaveContents]} : n \in 1..3}

InitAppend == InitWith(AppendDocs)

NextAppend ==
  \/ AppendAIResponseToNote({<<"a">>})
  \/ OnDrop
  \/ PageLoad({"n1"})
  \/ LoadGotNote
  \/ LoadGetElements
  \/ LoadDone

SpecAppend == InitAppend /\ [][NextAppend]_vars

(* The editor with its storage, the title and the LLM: two saved notes of  *)
(* one block, n1 still empty and n2 long enough for a title.  The user     *)
(* pastes a text, edits the title, asks for a title in the notes list and  *)
(* switches between the notes; the title requests are answered or fail.    *)
(* No time passes: the saves that were scheduled stay pending.             *)
TitleDocs ==
  {Stored("n1", <<TextBlock(1, <<>>)>>) \cup Stored("n2", <<TextBlock(2, <<LongText>>)>>)}

InitTitle == InitWith(TitleDocs)

NextTitle ==
  \/ OnBlockInput({<<LongText>>})
  \/ OnTitleChange({"My title"})
  \/ TitleSettingRead(BOOLEAN)
  \/ TitleGenerated(BOOLEAN)
  \/ GenerateTitleForNote(NoteIds)
  \/ GenerateTitleDone(BOOLEAN)
  \/ LoadStart(NoteIds)
  \/ LoadGotNote
  \/ LoadGetElements
  \/ LoadDone

SpecTitle == InitTitle /\ [][NextTitle]_vars

(* The app with its tabs, the editor and the store: two saved notes, n1    *)
(* untitled and empty, n2 with a text.  The page opens n1; the user opens, *)
(* switches and closes tabs and archives or trashes notes.  No block is    *)
(* edited.                                                                 *)
TabDocs ==
  {Stored("n1", <<TextBlock(1, <<>>)>>) \cup Stored("n2", <<TextBlock(2, <<"a">>)>>)}

InitTabs == InitWith(TabDocs)

NextTabs ==
  \/ PageLoad(NoteIds)
  \/ LoadGotNote
  \/ LoadGetElements
  \/ LoadDone
  \/ LoadSavedTabs
  \/ OpenNoteInNewTab(NoteIds)
  \/ SwitchToTab
  \/ CloseTab
  \/ ArchiveNote(NoteIds)
  \/ TrashNoteById(NoteIds)
  \/ RemovedCloseTab
  \/ HandleNoteRemoved

SpecTabs == InitTabs /\ [][NextTabs]_vars

(* The app, the editor and the store: two saved notes, n1 untitled and     *)
(* empty, n2 with a text.  The page opens n1; the user types, moves notes  *)
(* to the trash and deletes trashed notes for good; time passes and every  *)
(* write succeeds.                                                         *)
InitDelete == InitWith(TabDocs)

NextDelete ==
  \/ PageLoad({"n1"})
  \/ LoadGotNote
  \/ LoadGetElements
  \/ LoadDone
  \/ LoadSavedTabs
  \/ TrashNoteById(NoteIds)
  \/ RemovedCloseTab
  \/ HandleNoteRemoved
  \/ PermanentlyDeleteNoteById(NoteIds)
  \/ OnBlockInput(SaveContents)
  \/ Tick(SaveDelay)
  \/ SaveStart({TRUE})
  \/ SaveWriteBlock({TRUE})
  \/ SaveDone

SpecDelete == InitDelete /\ [][NextDelete]_vars

(* The editor alone, on a saved note of up to NumLen empty blocks: runs of *)
(* two numbered list items with a text block after each run.  The page     *)
(* loads the note and the user inserts, splits, merges, deletes, drags and *)
(* converts blocks and types the prefix of a numbered list.  No time       *)
(* passes.                                                                 *)
NumTypes == {"numbered", "text"}

NumDocs ==
  {Stored("n1", [i \in 1..n |->
                  DocBlock(i, IF i % 3 = 0 THEN "text" ELSE "numbered", <<>>)]) :
     n \in 1..NumLen}

NumContents == {<<"1", ".", " ">>}

InitNumbers == InitWith(NumDocs)

NextNumbers ==
  \/ OnBlockInput(NumContents)
  \/ OnEnter
  \/ OnBackspace
  \/ OnDelete
  \/ OnDrop
  \/ AddBlockAtEnd
  \/ InsertBlockAfter(NumTypes, {<<>>})
  \/ DeleteBlock
  \/ ChangeBlockType(NumTypes)
  \/ PageLoad({"n1"})
  \/ LoadGotNote
  \/ LoadGetElements
  \/ LoadDone

SpecNumbers == InitNumbers /\ [][NextNumbers]_vars

(* ------------------------------ claims --------------------------------- *)
Quiet == saves = <<>> /\ timers = <<>> /\ load = Idle

(* the step in which loadNote finishes *)
LoadCompletes == load.pc = "elements" /\ load' = Idle

(* a step of a handler of the editor that changes the blocks *)
HandlerMutates == load' = load /\ blocks' # blocks

(* C1: once loadNote has completed the block sequence is never empty,     *)
(* whatever the handlers do afterwards, and loading a note that has no     *)
(* stored block yields exactly one text block with empty content.          *)
C1_NeverEmpty ==
  /\ [](shownNote # NoNote => Len(blocks) >= 1)
  /\ [][(LoadCompletes /\ load.data = {}) =>
          (Len(blocks') = 1 /\ blocks'[1].type = "text" /\ blocks'[1].content = <<>>)]_vars

(* deleteBlock was called on the only block of a saved note: the block is  *)
(* still there, emptied, and no save was scheduled                         *)
C1_SoleBlockReset ==
  /\ shownNote # NoNote /\ dirty /\ timers = <<>>
  /\ Len(blocks) = 1 /\ blocks[1].type = "text" /\ blocks[1].content = <<>>
  /\ \E r \in elements : r.id = blocks[1].id /\ r.content # <<>>

(* the state in which the latest save() finished with success and no       *)
(* handler changed the blocks since it began                               *)
SavedAndUntouched == Quiet /\ ~dirty /\ saveStatus = "Saved"

(* C2: after a save() that completed with no mutation during or after it,  *)
(* the stored records of the active note are one per block in memory, and  *)
(* the record of the block at position i carries order i (from 0): the     *)
(* orders are the dense set 0..N-1 without duplicates.                     *)
C2_DenseOrders ==
  SavedAndUntouched =>
    LET recs == getElementsByNote(elements, noteId)
    IN /\ Cardinality(recs) = Len(blocks)
       /\ \A i \in DOMAIN blocks :
            \E r \in recs : r.id = blocks[i].id /\ r.order = i - 1

(* C3: when the editor switched to another note while a save of the        *)
(* outgoing note was pending or running, then once every timer, save and   *)
(* load has finished the store holds, under the outgoing note, the blocks  *)
(* that note had when the switch began.                                    *)
C3_SwitchKeepsEdits ==
  (Quiet /\ outgoing.note # NoNote) =>
    loadedBlocks(getElementsByNote(elements, outgoing.note)) = outgoing.blocks

(* C4: at most one save timer is pending; a scheduleSave leaves exactly    *)
(* one timer, set to the full delay, whatever was pending before; and a    *)
(* save() begins only when SaveDelay has passed since the latest           *)
(* scheduleSave, and leaves no timer pending behind it.                    *)
C4_Debounce ==
  /\ [](Len(timers) <= 1)
  /\ [][(elapsed' = 0 /\ timers' # timers) =>
          timers' = <<[left |-> SaveDelay, cur |-> TRUE]>>]_vars
  /\ [][Len(saves') > Len(saves) => (elapsed = SaveDelay /\ timers' = <<>>)]_vars

(* a save() is running: it began after the full delay, with no timer left *)
C4_SaveBegan ==
  saves # <<>> /\ timers = <<>> /\ elapsed = SaveDelay /\ ~dirty /\ Len(blocks) = 2

(* C5: every handler that changes the block sequence, a content or a       *)
(* payload leaves a save timer pending when it returns.                    *)
C5_MutationSchedules == [][HandlerMutates => timers' # <<>>]_vars

(* C6: after a save() that completed with no mutation during or after it,  *)
(* loading the active note from the store (getElementsByNote, sort by      *)
(* order, deserialize) gives the blocks in memory: same ids, same order,   *)
(* same type, content and payload.                                         *)
C6_RoundTrip ==
  SavedAndUntouched =>
    loadedBlocks(getElementsByNote(elements, noteId)) = blocks

(* C7: when a write of save() fails, the status becomes 'Error saving',    *)
(* the blocks and the note data stay as they are, and the failure starts   *)
(* no timer: the timers are what they were.                                *)
C7_FailureReported ==
  [][(\E k \in DOMAIN saves : saves[k].rejected /\ saves' = RemoveAt(saves, k)) =>
       (/\ saveStatus' = "Error saving"
        /\ blocks' = blocks
        /\ noteData' = noteData
        /\ timers' = timers)]_vars

(* a save() failed: the error is shown, the edit is still in memory and    *)
(* not in the store, and nothing is scheduled                              *)
C7_ErrorShown ==
  /\ saveStatus = "Error saving" /\ Quiet /\ shownNote # NoNote
  /\ loadedBlocks(getElementsByNote(elements, noteId)) # blocks

idSeq(bs) == [i \in DOMAIN bs |-> bs[i].id]

(* C8: the ids of the blocks are pairwise distinct, and a handler keeps    *)
(* every block's id: when the length stays, each position keeps its id or  *)
(* the same ids are reordered; when a block is added, the others keep      *)
(* their ids in their order and the new id is none of theirs; when a       *)
(* block is removed, the others keep their ids in their order.             *)
C8_StableIds ==
  /\ [](\A i, j \in DOMAIN blocks : i # j => blocks[i].id # blocks[j].id)
  /\ [][load' = load =>
          \/ /\ Len(blocks') = Len(blocks)
             /\ idSeq(blocks') = idSeq(blocks) \/ ids(blocks') = ids(blocks)
          \/ /\ Len(blocks') = Len(blocks) + 1
             /\ \E k \in DOMAIN blocks' :
                  /\ idSeq(blocks) = RemoveAt(idSeq(blocks'), k)
                  /\ blocks'[k].id \notin ids(blocks)
          \/ /\ Len(blocks') = Len(blocks) - 1
             /\ \E k \in DOMAIN blocks : idSeq(blocks') = RemoveAt(idSeq(blocks), k)]_vars

(* a block was split: the second block has an id the store never saw *)
C8_NewBlockMinted ==
  /\ shownNote # NoNote /\ dirty /\ Len(blocks) = 2
  /\ blocks[1].id \in {r.id : r \in elements}
  /\ blocks[2].id \notin {r.id : r \in elements}

(* C9: in every reachable state, Backspace at the start of a text block    *)
(* that follows a divider or an image, and Delete at the end of a block    *)
(* that precedes a divider or an image, leave the blocks as they are.      *)
C9_AtomicNoMerge ==
  \A i \in DOMAIN blocks :
    /\ (i > 1 /\ blocks[i].type = "text" /\ blocks[i - 1].type \in Atomic)
         => onBackspace(Cur, i).blocks = blocks
    /\ (i < Len(blocks) /\ hasContentElement(blocks[i])
           /\ blocks[i + 1].type \in Atomic)
         => onDelete(Cur, i).blocks = blocks

(* an edited document in which a text block with content follows a         *)
(* divider or an image                                                     *)
C9_TextAfterAtomic ==
  /\ shownNote # NoNote /\ dirty /\ Len(blocks) = 2
  /\ blocks[1].type \in Atomic
  /\ blocks[2].type = "text" /\ blocks[2].content # <<>>

(* C10: in every reachable state, Enter in a block, at any position, gives *)
(* the new block the type of the block if that type is bullet, numbered    *)
(* or todo and the block's text was not empty before the split, and the    *)
(* type text otherwise.                                                    *)
C10_SplitType ==
  \A i \in DOMAIN blocks :
    (hasContentElement(blocks[i]) /\ CanCreate(Cur)) =>
      \A p \in 0..Len(blocks[i].content) :
        onEnter(Cur, i, p).blocks[i + 1].type =
          IF blocks[i].type \in {"bullet", "numbered", "todo"}
             /\ trim(textContent(blocks[i].content)) # <<>>
          THEN blocks[i].type ELSE "text"

(* the ids stored for some note *)
StoredIds == {r.id : r \in elements}

(* an id is left for a new block *)
CanMint == IdPool \ UsedIds(Cur) # {}

(* C11: in every reachable state, Enter in a block at any caret position   *)
(* p leaves that block with the content before p (and nothing else of it   *)
(* changed), puts exactly one new block right after it whose content is    *)
(* the content after p and whose id no block had, and keeps all other      *)
(* blocks as they were, in their order: the length grows by one.           *)
C11_Split ==
  \A i \in DOMAIN blocks :
    (hasContentElement(blocks[i]) /\ CanMint) =>
      \A p \in 0..Len(blocks[i].content) :
        LET textBefore == SubSeq(blocks[i].content, 1, p)
            textAfter == SubSeq(blocks[i].content, p + 1, Len(blocks[i].content))
        IN \A after \in {onEnter(Cur, i, p).blocks} :
             /\ Len(after) = Len(blocks) + 1
             /\ after[i] = [blocks[i] EXCEPT !.content = textBefore]
             /\ after[i + 1].content = textAfter
             /\ after[i + 1].id \notin ids(blocks)
             /\ RemoveAt(after, i + 1) = [blocks EXCEPT ![i].content = textBefore]

(* a saved block was split at the start of its text: it is empty and a new *)
(* text block after it holds the text                                      *)
C11_SplitDone ==
  /\ shownNote # NoNote /\ dirty /\ Len(blocks) = 2
  /\ blocks[1].id \in StoredIds /\ blocks[1].content = <<>>
  /\ blocks[2].id \notin StoredIds /\ blocks[2].content = <<"a">>
  /\ blocks[2].type = "text"

(* Backspace at the start of the block at position i has merged it into    *)
(* the block before it, with the caret at the seam                         *)
MergedBack(i) ==
  LET prev == blocks[i - 1]
  IN \A s \in {onBackspace(Cur, i)} :
       /\ s.blocks = RemoveAt([blocks EXCEPT ![i - 1].content =
                                               prev.content \o blocks[i].content], i)
       /\ s.focus = [id |-> prev.id, caret |-> Len(textContent(prev.content))]

(* C12 as stated: in every reachable state, Backspace at the start of a    *)
(* text block whose previous block is neither a divider nor an image       *)
(* appends the block's content to the previous block's, removes the block  *)
(* and puts the caret at the previous block's text length before the merge.*)
C12_MergeNonAtomic ==
  \A i \in DOMAIN blocks :
    (i > 1 /\ blocks[i].type = "text" /\ blocks[i - 1].type \notin Atomic) =>
      MergedBack(i)

(* C12 amended: in every reachable state, Backspace at the start of a text *)
(* block whose previous block has a content element (its type is none of   *)
(* divider, image, table, bookmark, video, file, equation) appends the     *)
(* block's content to the previous block's, removes the block and puts the *)
(* caret at the previous block's text length before the merge.             *)
C12_Merge ==
  \A i \in DOMAIN blocks :
    (i > 1 /\ blocks[i].type = "text" /\ hasContentElement(blocks[i - 1])) =>
      MergedBack(i)

(* the second block of the saved note was merged into the first, whose     *)
(* content is a line break: its record is deleted and the first block      *)
(* still holds the line break alone                                        *)
C12_MergedIntoBreak ==
  /\ shownNote # NoNote /\ dirty /\ Len(blocks) = 2
  /\ blocks[1].id = 1 /\ blocks[1].content = <<"<br>">> /\ blocks[2].id = 3
  /\ StoredIds = {1, 3}

(* C13: in every reachable state, Backspace at the start of a block whose  *)
(* type is not text leaves the blocks as they are but for that block's     *)
(* type, which is text: same number of blocks, same order, same ids and    *)
(* contents, also when the block before it could take a merge.             *)
C13_ConvertOnly ==
  \A i \in DOMAIN blocks :
    (hasContentElement(blocks[i]) /\ blocks[i].type # "text") =>
      onBackspace(Cur, i).blocks = [blocks EXCEPT ![i].type = "text"]

(* the list item saved as the third block is a text block now, with its    *)
(* content, and the text block before it is still there                    *)
C13_Converted ==
  /\ shownNote # NoNote /\ dirty /\ Len(blocks) = 3
  /\ blocks[3].id = 3 /\ blocks[3].type = "text" /\ blocks[3].content = <<"a">>
  /\ \E r \in elements : r.id = 3 /\ r.type = "bullet"
  /\ blocks[2].id = 2 /\ blocks[2].type = "text" /\ blocks[2].content = <<"a">>

(* Delete at the end of the block at position i has merged the next block  *)
(* into it: the block keeps everything but its content, the next block is  *)
(* gone and the other blocks are as they were                              *)
MergedForward(i) ==
  onDelete(Cur, i).blocks =
    RemoveAt([blocks EXCEPT ![i].content = blocks[i].content \o blocks[i + 1].content],
             i + 1)

(* C14 as stated: in every reachable state, Delete at the end of a block   *)
(* whose next block is neither a divider nor an image appends the next     *)
(* block's content to the block's content and removes the next block; the  *)
(* block keeps its id and type and the other blocks their order.           *)
C14_MergeNonAtomic ==
  \A i \in DOMAIN blocks :
    (i < Len(blocks) /\ hasContentElement(blocks[i])
       /\ blocks[i + 1].type \notin Atomic) =>
      MergedForward(i)

(* C14 amended: in every reachable state, Delete at the end of a block     *)
(* whose next block has a content element (its type is none of divider,    *)
(* image, table, bookmark, video, file, equation) appends the next block's *)
(* content to the block's content and removes the next block; the block    *)
(* keeps its id and type and the other blocks their order.                 *)
C14_Merge ==
  \A i \in DOMAIN blocks :
    (i < Len(blocks) /\ hasContentElement(blocks[i])
       /\ hasContentElement(blocks[i + 1])) =>
      MergedForward(i)

(* the first block of the saved note, emptied, has taken the text of the   *)
(* second, whose record is deleted                                         *)
C14_MergedForward ==
  /\ shownNote # NoNote /\ dirty /\ Len(blocks) = 2
  /\ blocks[1].id = 1 /\ blocks[1].type = "text" /\ blocks[1].content = <<"a">>
  /\ blocks[2].id = 3 /\ StoredIds = {1, 3}
  /\ \E r \in elements : r.id = 1 /\ r.content = <<"<br>">>

(* the ids a caller may pass: those of the blocks, ids no block has, and 0 *)
(* for null                                                                *)
AnyId == IdPool \cup {0}

(* C15: in every reachable state, a drop of the block draggedId on another *)
(* block targetId leaves the dragged block immediately before the target,  *)
(* whether it was above or below it, and the other blocks in their order.  *)
C15_DropsBeforeTarget ==
  \A draggedId, targetId \in ids(blocks) :
    draggedId # targetId =>
      \A after \in {onDrop(Cur, draggedId, targetId).blocks} :
        /\ Len(after) = Len(blocks)
        /\ findIndex(after, draggedId) + 1 = findIndex(after, targetId)
        /\ RemoveAt(after, findIndex(after, draggedId))
             = RemoveAt(blocks, findIndex(blocks, draggedId))

(* C16: in every reachable state, a drop on the dragged block itself, or   *)
(* with a dragged id or a target id that no block has, changes nothing:    *)
(* the blocks, the store, the timers and the status stay as they are.      *)
C16_DropIgnored ==
  \A draggedId, targetId \in AnyId :
    (draggedId = targetId \/ draggedId \notin ids(blocks)
       \/ targetId \notin ids(blocks)) =>
      onDrop(Cur, draggedId, targetId) = Cur

(* the saved note of three blocks is shown, untouched, and no save is      *)
(* pending: a drop that scheduled one would show                           *)
C16_NothingPending ==
  /\ shownNote # NoNote /\ ~dirty /\ timers = <<>> /\ saveStatus = ""
  /\ Len(blocks) = 3 /\ load = Idle

(* the contents a caller may pass: none, and a text with markup *)
CallContents == {<<>>, <<"a", "<br>">>}

(* C17: in every reachable state, insertBlockAfter with any id, type and   *)
(* content adds one block, right after the block afterId if there is one   *)
(* and at the end otherwise; the block has an id no block had, the type    *)
(* and the content given, and the other blocks are as they were.           *)
C17_InsertAfter ==
  CanMint =>
    \A afterId \in AnyId, type \in EditTypes, content \in CallContents :
      \A after \in {insertBlockAfter(Cur, afterId, type, content).blocks},
         k \in {IF afterId \in ids(blocks) THEN findIndex(blocks, afterId) + 1
                ELSE Len(blocks) + 1} :
        /\ Len(after) = Len(blocks) + 1
        /\ after[k].id \notin ids(blocks)
        /\ after[k].type = type
        /\ after[k].content = content
        /\ RemoveAt(after, k) = blocks

(* a table is the only block left of the saved note and an empty list item *)
(* with a new id was inserted after it                                     *)
C17_Inserted ==
  /\ shownNote # NoNote /\ dirty /\ Len(blocks) = 2
  /\ blocks[1].type = "table" /\ blocks[1].id \in StoredIds
  /\ blocks[2].type = "bullet" /\ blocks[2].content = <<>>
  /\ blocks[2].id \notin StoredIds

(* the caret at the end of the content of the block b *)
AtEndOf(b) == [id |-> b.id, caret |-> Len(textContent(b.content))]

(* C18: in every reachable state, deleteBlock(blockId) with an id no block *)
(* has changes nothing; on the only block it keeps the block, with its id, *)
(* as an empty text block and focuses it; otherwise it removes that block  *)
(* alone and focuses the block before it, caret at its end, or the next    *)
(* block when the removed block was the first.                             *)
C18_DeleteBlock ==
  \A blockId \in AnyId :
    \A index \in {findIndex(blocks, blockId)}, s \in {deleteBlock(Cur, blockId)} :
      IF index = 0 THEN s = Cur
      ELSE IF Len(blocks) = 1
      THEN /\ s.blocks = <<[blocks[1] EXCEPT !.type = "text", !.content = <<>>]>>
           /\ s.focus.id = blockId
      ELSE /\ s.blocks = RemoveAt(blocks, index)
           /\ IF index > 1 THEN s.focus = AtEndOf(blocks[index - 1])
              ELSE s.focus.id = blocks[2].id

(* C19: in every reachable state, changeBlockType with an id no block has  *)
(* changes nothing, and with the id of a block and any type it keeps the   *)
(* number of blocks, that block's place, id and content, and every other   *)
(* block as it was.                                                        *)
C19_InPlace ==
  \A blockId \in AnyId, newType \in EditTypes :
    \A index \in {findIndex(blocks, blockId)},
       s \in {changeBlockType(Cur, blockId, newType)} :
      IF index = 0 THEN s = Cur
      ELSE /\ Len(s.blocks) = Len(blocks)
           /\ s.blocks[index].id = blockId
           /\ s.blocks[index].content = blocks[index].content
           /\ s.blocks[index].type = newType
           /\ \A j \in DOMAIN blocks : j # index => s.blocks[j] = blocks[j]

(* the text block saved as the second of three is a list item now, in its  *)
(* place and with its content                                              *)
C19_TypeChanged ==
  /\ shownNote # NoNote /\ dirty /\ Len(blocks) = 3
  /\ blocks[2].id = 2 /\ blocks[2].type = "bullet" /\ blocks[2].content = <<"a">>
  /\ \E r \in elements : r.id = 2 /\ r.type = "text" /\ r.content = <<"a">>

(* C20: in every reachable state, changeBlockType of any block that is not *)
(* a table into table leaves it with the default table payload (2 rows, 2  *)
(* columns, the grid of "Header 1", "Header 2" and two empty cells), and   *)
(* changeBlockType into bookmark, video or equation leaves the block with  *)
(* an empty url, video url or equation, whatever the block was before.     *)
C20_DefaultPayload ==
  \A i \in DOMAIN blocks :
    LET into(t) == changeBlockType(Cur, blocks[i].id, t).blocks[i]
    IN /\ blocks[i].type # "table" =>
            \A b \in {into("table")} :
              /\ b.rows = DefaultRows
              /\ b.cols = DefaultCols
              /\ b.tableData = << <<<<"Header 1", "Header 2">>, <<"", "">>>> >>
       /\ blocks[i].type # "bookmark" => into("bookmark").url = ""
       /\ blocks[i].type # "video" => into("video").videoUrl = ""
       /\ blocks[i].type # "equation" => into("equation").equation = ""

(* the table of the autoformat detector: literal prefix and type *)
PrefixTable ==
  { <<<<"#", "#", "#", " ">>, "h3">>, <<<<"#", "#", " ">>, "h2">>,
    <<<<"#", " ">>, "h1">>, <<<<"-", " ">>, "bullet">>, <<<<"*", " ">>, "bullet">>,
    <<<<"1", ".", " ">>, "numbered">>, <<<<"[", "]", " ">>, "todo">>,
    <<<<"[", " ", "]", " ">>, "todo">>, <<<<">", " ">>, "quote">>,
    <<<<Backtick, Backtick, Backtick, " ">>, "code">>,
    <<<<"-", "-", "-">>, "divider">> }

C22_DividerExact ==
  \A i \in DOMAIN blocks, c \in FormatContents :
    blocks[i].type = "text" =>
      \A s \in {onBlockInput(Cur, i, c)} :
        s.blocks[i].type = "divider" => textContent(c) = <<"-", "-", "-">>

(* C23: a content change on a block of a type other than text leaves the   *)
(* block's type and leaves the content as it was typed, whatever the       *)
(* content starts with.                                                    *)
C23_TextOnly ==
  \A i \in DOMAIN blocks, c \in FormatContents :
    blocks[i].type # "text" /\ hasContentElement(blocks[i]) =>
      \A s \in {onBlockInput(Cur, i, c)} :
        s.blocks[i].type = blocks[i].type /\ s.blocks[i].content = c

(* a list item holds a content that starts with the prefix of a heading *)
C23_PrefixKept ==
  \E i \in DOMAIN blocks :
    blocks[i].type = "bullet" /\ blocks[i].content = <<"#", " ", "a">>

(* C24: a text block whose content comes to start with "[] " or "[ ] "     *)
(* becomes a to-do that is unchecked and holds the content without the     *)
(* prefix, whatever the block was before.                                  *)
C24_TodoUnchecked ==
  \A i \in DOMAIN blocks :
    blocks[i].type = "text" =>
      \A c \in {<<"[", "]", " ", "a">>, <<"[", " ", "]", " ", "a">>} :
        \A s \in {onBlockInput(Cur, i, c)} :
          /\ s.blocks[i].type = "todo"
          /\ s.blocks[i].checked = FALSE
          /\ s.blocks[i].content = <<"a">>

(* C25: every block in memory equals, field for field, the block that      *)
(* Block.deserialize builds from its serialized form.                      *)
C25_SerializeRoundTrip ==
  \A i \in DOMAIN blocks :
    deserialize(serialize(blocks[i]), 0, T0) = blocks[i]

(* the header placeholders, by column *)
Headers == <<"Header 1", "Header 2", "Header 3", "Header 4", "Header 5", "Header 6">>

(* the record the store holds for the block b *)
RecordOf(b) == CHOOSE r \in elements : r.id = b.id

(* C26: a block just loaded from a record that lacks a payload field of     *)
(* its type holds the default value of that field; a table loaded from a   *)
(* record without tableData holds a grid of the recorded rows by cols      *)
(* (2 by 2 when they are missing too), "Header 1".."Header cols" in row 1 *)
(* and empty cells below.                                                  *)
C26_DefaultsOnLoad ==
  shownNote # NoNote /\ ~dirty =>
    \A i \in DOMAIN blocks : \A r \in {RecordOf(blocks[i])} :
      LET b == blocks[i]
          rows == IF "rows" \in DOMAIN r THEN r.rows ELSE 2
          cols == IF "cols" \in DOMAIN r THEN r.cols ELSE 2
      IN /\ b.type = r.type
         /\ "collapsed" \notin DOMAIN r => b.collapsed = TRUE
         /\ "children" \notin DOMAIN r => b.children = <<>>
         /\ "url" \notin DOMAIN r =>
              b.url = "" /\ b.title = "" /\ b.description = "" /\ b.favicon = ""
         /\ "videoUrl" \notin DOMAIN r => b.videoUrl = ""
         /\ "fileName" \notin DOMAIN r =>
              b.fileName = "" /\ b.fileSize = 0 /\ b.fileData = Null
         /\ "equation" \notin DOMAIN r => b.equation = ""
         /\ r.type = "table" /\ "tableData" \notin DOMAIN r =>
              /\ b.rows = rows /\ b.cols = cols
              /\ b.tableData # NoGrid
              /\ Len(Grid(b)) = rows
              /\ \A x \in 1..rows :
                    /\ Len(Grid(b)[x]) = cols
                    /\ \A y \in 1..cols :
                          Grid(b)[x][y] = IF x = 1 THEN Headers[y] ELSE ""

(* a table record of 3 rows and 1 column without tableData was loaded *)
C26_GridBuilt ==
  /\ shownNote # NoNote /\ ~dirty
  /\ \E i \in DOMAIN blocks :
       /\ blocks[i].type = "table"
       /\ DOMAIN RecordOf(blocks[i]) \cap {"rows", "cols", "tableData"} = {"rows", "cols"}
       /\ RecordOf(blocks[i]).rows = 3 /\ RecordOf(blocks[i]).cols = 1
       /\ blocks[i].tableData = << << <<"Header 1">>, <<"">>, <<"">> >> >>

(* C27: removing a row from a table of one row, or a column from a table   *)
(* of one column, changes nothing; every table has at least one row and    *)
(* one column, in rows, cols and tableData.                                *)
C27_NeverBelowOne ==
  \A i \in DOMAIN blocks :
    blocks[i].type = "table" =>
      /\ blocks[i].rows >= 1 /\ blocks[i].cols >= 1
      /\ Len(Grid(blocks[i])) >= 1
      /\ \A x \in DOMAIN Grid(blocks[i]) : Len(Grid(blocks[i])[x]) >= 1
      /\ blocks[i].rows = 1 => removeTableRow(Cur, i) = Cur
      /\ blocks[i].cols = 1 => removeTableColumn(Cur, i) = Cur

(* rows and columns were removed down to one cell *)
C27_OneCellLeft ==
  \E i \in DOMAIN blocks :
    /\ blocks[i].type = "table" /\ dirty
    /\ blocks[i].rows = 1 /\ blocks[i].cols = 1
    /\ blocks[i].tableData = << << <<"a">> >> >>

(* C28: on every table, adding a column and removing a column, and adding  *)
(* a row and removing a row, leave rows, cols and tableData as they were.  *)
C28_AddThenRemove ==
  \A i \in DOMAIN blocks :
    blocks[i].type = "table" =>
      /\ \A s \in {removeTableColumn(addTableColumn(Cur, i), i)} :
            /\ s.blocks[i].rows = blocks[i].rows
            /\ s.blocks[i].cols = blocks[i].cols
            /\ s.blocks[i].tableData = blocks[i].tableData
      /\ \A s \in {removeTableRow(addTableRow(Cur, i), i)} :
            /\ s.blocks[i].rows = blocks[i].rows
            /\ s.blocks[i].cols = blocks[i].cols
            /\ s.blocks[i].tableData = blocks[i].tableData

(* the table holds its four texts again after rows or columns were added   *)
(* and removed                                                             *)
C28_BackToOriginal ==
  \E i \in DOMAIN blocks :
    /\ blocks[i].type = "table" /\ dirty
    /\ blocks[i].rows = 2 /\ blocks[i].cols = 2
    /\ blocks[i].tableData = <<CellTexts>>

(* the numbering rule: 1 plus the number of numbered blocks in the         *)
(* maximal run of numbered blocks that ends right before position i        *)
Ordinal(bs, i) ==
  1 + Cardinality({j \in 1..(i - 1) : \A k \in j..(i - 1) : bs[k].type = "numbered"})

ExampleTypes == <<"bullet", "numbered", "numbered", "numbered", "text", "numbered">>

ExampleBlocks == [i \in DOMAIN ExampleTypes |-> DocBlock(i, ExampleTypes[i], <<>>)]

(* C29: for every numbered block of every block sequence,                  *)
(* getNumberedListNumber gives the value of the numbering rule; for        *)
(* [bullet, numbered, numbered, numbered, text, numbered] it gives         *)
(* 1, 2, 3 and then 1.                                                     *)
C29_OrdinalRule ==
  /\ \A i \in DOMAIN blocks :
       blocks[i].type = "numbered" =>
         getNumberedListNumber(blocks, i) = Ordinal(blocks, i)
  /\ [i \in {2, 3, 4, 6} |-> getNumberedListNumber(ExampleBlocks, i)]
       = (2 :> 1 @@ 3 :> 2 @@ 4 :> 3 @@ 6 :> 1)

(* a run of two numbered blocks, a text block and a numbered block show    *)
(* 1, 2 and 1                                                              *)
C29_RunAndReset ==
  /\ [i \in DOMAIN blocks |-> blocks[i].type] = <<"numbered", "numbered", "text", "numbered">>
  /\ numbers = <<1, 2, NoNumber, 1>>

(* C30: whenever the editor is at rest, the element of every numbered      *)
(* block shows the value of the numbering rule for the blocks in memory.   *)
C30_NoStaleOrdinal ==
  shownNote # NoNote =>
    /\ DOMAIN numbers = DOMAIN blocks
    /\ \A i \in DOMAIN blocks :
         blocks[i].type = "numbered" => numbers[i] = Ordinal(blocks, i)

(* three numbered blocks were dragged into another order and show 1, 2, 3 *)
C30_Renumbered ==
  /\ dirty
  /\ Len(blocks) = 3
  /\ \A i \in DOMAIN blocks : blocks[i].type = "numbered"
  /\ blocks[1].id > blocks[2].id
  /\ numbers = <<1, 2, 3>>

(* C31: addTableRow appends one row of cols empty cells and adds one to    *)
(* rows; addTableColumn appends one cell to every row, "Header N" with N   *)
(* the new number of columns in the first row and an empty cell in the     *)
(* others, and adds one to cols; the cells there were stay as they are.    *)
C31_AddRowAddColumn ==
  \A i \in DOMAIN blocks :
    blocks[i].type = "table" =>
      LET b == blocks[i] IN
      /\ \A s \in {addTableRow(Cur, i)} :
            /\ s.blocks[i].rows = b.rows + 1 /\ s.blocks[i].cols = b.cols
            /\ Len(Grid(s.blocks[i])) = Len(Grid(b)) + 1
            /\ \A x \in DOMAIN Grid(b) : Grid(s.blocks[i])[x] = Grid(b)[x]
            /\ Len(Grid(s.blocks[i])[Len(Grid(b)) + 1]) = b.cols
            /\ \A y \in 1..b.cols : Grid(s.blocks[i])[Len(Grid(b)) + 1][y] = ""
      /\ \A s \in {addTableColumn(Cur, i)} :
            /\ s.blocks[i].cols = b.cols + 1 /\ s.blocks[i].rows = b.rows
            /\ Len(Grid(s.blocks[i])) = Len(Grid(b))
            /\ \A x \in DOMAIN Grid(b) :
                  /\ Len(Grid(s.blocks[i])[x]) = Len(Grid(b)[x]) + 1
                  /\ SubSeq(Grid(s.blocks[i])[x], 1, Len(Grid(b)[x])) = Grid(b)[x]
                  /\ Grid(s.blocks[i])[x][Len(Grid(b)[x]) + 1]
                       = IF x = 1 THEN Headers[b.cols + 1] ELSE ""

(* a column was added to the table of four texts *)
C31_ColumnAdded ==
  \E i \in DOMAIN blocks :
    /\ blocks[i].type = "table"
    /\ blocks[i].rows = 2 /\ blocks[i].cols = 3
    /\ blocks[i].tableData = << << <<"a", "b", "Header 3">>, <<"c", "d", "">> >> >>

(* C32: every table that has been rendered has as many rows in tableData   *)
(* as rows says, and cols cells in every row.                              *)
C32_GridMatchesCounts ==
  \A i \in DOMAIN blocks :
    blocks[i].type = "table" /\ blocks[i].tableData # NoGrid =>
      /\ Len(Grid(blocks[i])) = blocks[i].rows
      /\ \A x \in DOMAIN Grid(blocks[i]) : Len(Grid(blocks[i])[x]) = blocks[i].cols

(* a table grown to three rows and three columns, with a cell typed in *)
C32_GrownAndEdited ==
  \E i \in DOMAIN blocks :
    /\ blocks[i].type = "table" /\ dirty
    /\ blocks[i].rows = 3 /\ blocks[i].cols = 3
    /\ Grid(blocks[i])[3][3] = "x"

(* C33: every record in the store of a block that an earlier session       *)
(* saved carries the id of the note it was saved under: save() never       *)
(* writes a block under another note.                                      *)
C33_OwnNote ==
  \A r \in elements : \A q \in UNION SavedNotes :
    q.id = r.id => r.canvasId = q.canvasId

(* C34: when a save() has finished with success and nothing was written    *)
(* since, the records of the note carry pairwise different orders: the     *)
(* save wrote each block once, at its position.                            *)
C34_Snapshot ==
  (saves = <<>> /\ saveStatus = "Saved") =>
    \A r, q \in getElementsByNote(elements, noteId) :
      r.id # q.id => r.order # q.order

C36_AppendedIsLast ==
  (shownNote # NoNote /\ load = Idle) =>
    /\ \A r \in getElementsByNote(elements, noteId) : getNextBlockOrder(Cur) > r.order
    /\ ~dirty =>
         \A r \in elements :
           ("checked" \notin DOMAIN r /\ r.id \in ids(blocks)) =>
             blocks[Len(blocks)].id = r.id

(* C38: a generated title is held only by the note whose content was sent, *)
(* in memory and in the store; a note whose title the user set does not    *)
(* hold a title of the first-content request; and no two first-content     *)
(* requests of one note are in flight.                                     *)
GeneratedFor(n) == {generateTitle(caller, n) : caller \in {"setting", "menu"}}

NoteRecords == canvases \cup {noteData[k] : k \in DOMAIN noteData}

C38_TitleOfOwnNote ==
  /\ \A c \in NoteRecords : \A n \in NoteIds :
       OrStr(c, "name", "") \in GeneratedFor(n) => c.id = n
  /\ \A c \in NoteRecords : \A n \in NoteIds :
       OrBool(c, "titleManuallySet") => OrStr(c, "name", "") # generateTitle("setting", n)
  /\ \A j, k \in DOMAIN titleReqs :
       (j # k /\ titleReqs[j].pc \in {"setting", "llm"}
              /\ titleReqs[k].pc \in {"setting", "llm"})
         => titleReqs[j].note # titleReqs[k].note

(* C39: when archiveNote or trashNoteById ends (handleNoteRemoved has run), *)
(* no tab refers to the note it removed and the editor's note is another;   *)
(* and whenever tabs are open, activeTabIndex is an index of openTabs and   *)
(* the tabs never become empty again.                                       *)
C39_RemovedNoteClosed ==
  /\ [][(appOp.pc = "removed" /\ appOp' = Idle) =>
          (tabIndexOf(openTabs', appOp.note) = 0 - 1 /\ noteId' # appOp.note)]_vars
  /\ [](openTabs # <<>> => activeTabIndex \in 0..(Len(openTabs) - 1))
  /\ [][openTabs # <<>> => openTabs' # <<>>]_vars

(* C37: a note that is gone from the store, its record and its blocks'     *)
(* records, stays gone whatever the editor and the app do next.            *)
Gone(n) == getNote(canvases, n) = <<>> /\ getElementsByNote(elements, n) = {}

C37_DeletedStaysDeleted ==
  [][\A n \in NoteIds : Gone(n) => Gone(n)']_vars

====
